---- MODULE Spec2Model ----
(***************************************************************************)
(* AI Crawler Monitor: bot detection (lib/bot-detector.ts), bandwidth      *)
(* costing (lib/cost-calculator.ts), log parsing (lib/log-parser.ts) and   *)
(* the two request handlers, POST /api/process-logs and GET /api/analyze.  *)
(*                                                                         *)
(* The library is a set of synchronous functions over two read-only        *)
(* registries.  The state is one call: which operation, on which           *)
(* arguments, whether it has returned, what it returned, and how many      *)
(* RegExp.test calls it made.  For a request handler the state also holds  *)
(* the calls it made to the store (store: each with its outcome) and what  *)
(* it wrote with console.error (console).  The store is outside the        *)
(* program: the outcome of a call to it is chosen by the environment.      *)
(*                                                                         *)
(* The dashboard page is a second specification, DashboardSpec: its        *)
(* handlers run concurrently, one step from await to await, over the       *)
(* state of the component, the requests in flight and the table.           *)
(*                                                                         *)
(* Strings the code inspects character by character (user agents) are      *)
(* sequences of one-character strings.  Money and traffic are exact        *)
(* rationals held as integers over fixed denominators (see UnitsPerGB);    *)
(* IEEE-754 rounding of the JavaScript numbers is not modelled.            *)
(***************************************************************************)
EXTENDS Integers, Sequences, FiniteSets, TLC

VARIABLES pc, op, args, ret, tests, store, console,
          mounted, metrics, realtimeLogs, fetches, upload, table, events

\* the state of a call to the library or to a route handler
callVars == <<pc, op, args, ret, tests, store, console>>

\* the state of the dashboard page and of what it talks to
dashboardVars ==
    <<mounted, metrics, realtimeLogs, fetches, upload, table, events>>

vars == <<callVars, dashboardVars>>

(***************************************************************************)
(* JavaScript values                                                       *)
(***************************************************************************)
Null == "<null>"

Undefined == "<undefined>"

(***************************************************************************)
(* Regular expressions.  A RegExp is a sequence of alternatives; an        *)
(* alternative is a sequence of atoms; an atom is a literal character or   *)
(* Digits (\d+).  Every pattern of the detector carries the i flag, so     *)
(* literals are stored in lower case and the subject is lowered before     *)
(* comparison.                                                             *)
(***************************************************************************)
Digits == "\\d+"

UpperCase ==
    <<"A", "B", "C", "D", "E", "F", "G", "H", "I", "J", "K", "L", "M",
      "N", "O", "P", "Q", "R", "S", "T", "U", "V", "W", "X", "Y", "Z">>

LowerCase ==
    <<"a", "b", "c", "d", "e", "f", "g", "h", "i", "j", "k", "l", "m",
      "n", "o", "p", "q", "r", "s", "t", "u", "v", "w", "x", "y", "z">>

CaseFold ==
    [c \in {UpperCase[i] : i \in 1..Len(UpperCase)} |->
        LowerCase[CHOOSE i \in 1..Len(UpperCase) : UpperCase[i] = c]]

Lower(c) == IF c \in DOMAIN CaseFold THEN CaseFold[c] ELSE c

ToLower(s) == [i \in 1..Len(s) |-> Lower(s[i])]

IsDigit(c) == c \in {"0", "1", "2", "3", "4", "5", "6", "7", "8", "9"}

RECURSIVE MatchAt(_, _, _, _)
\* does alt[k..] match the lowered subject s starting at position i
MatchAt(s, i, alt, k) ==
    IF k > Len(alt) THEN TRUE
    ELSE IF i > Len(s) THEN FALSE
    ELSE IF alt[k] = Digits
         THEN /\ IsDigit(s[i])
              /\ \/ MatchAt(s, i + 1, alt, k)
                 \/ MatchAt(s, i + 1, alt, k + 1)
         ELSE /\ s[i] = alt[k]
              /\ MatchAt(s, i + 1, alt, k + 1)

\* RegExp.prototype.test for an unanchored, case-insensitive pattern
Test(pattern, str) ==
    LET s == ToLower(str)
    IN  \E a \in 1..Len(pattern) :
            \E i \in 1..(Len(s) + 1) : MatchAt(s, i, pattern[a], 1)

(***************************************************************************)
(* BotDetector                                                             *)
(***************************************************************************)
signatures ==
    << [name |-> "GPTBot",
       pattern |-> << <<"g", "p", "t", "b", "o", "t", "/", Digits, ".", Digits>> >>,
       category |-> "ai_training", severity |-> "high",
       description |-> "OpenAI GPT training crawler",
       recommendation |-> "rate_limit"],
       [name |-> "ChatGPT-User",
       pattern |-> << <<"c", "h", "a", "t", "g", "p", "t", "-", "u", "s", "e", "r">> >>,
       category |-> "ai_training", severity |-> "high",
       description |-> "ChatGPT web browsing",
       recommendation |-> "rate_limit"],
       [name |-> "Claude-Web",
       pattern |-> << <<"c", "l", "a", "u", "d", "e", "-", "w", "e", "b">> >>,
       category |-> "ai_training", severity |-> "high",
       description |-> "Anthropic Claude crawler",
       recommendation |-> "rate_limit"],
       [name |-> "anthropic-ai",
       pattern |-> << <<"a", "n", "t", "h", "r", "o", "p", "i", "c", "-", "a", "i">> >>,
       category |-> "ai_training", severity |-> "high",
       description |-> "Anthropic AI bot",
       recommendation |-> "rate_limit"],
       [name |-> "Cohere-ai",
       pattern |-> << <<"c", "o", "h", "e", "r", "e", "-", "a", "i">> >>,
       category |-> "ai_training", severity |-> "medium",
       description |-> "Cohere AI training bot",
       recommendation |-> "rate_limit"],
       [name |-> "PerplexityBot",
       pattern |-> << <<"p", "e", "r", "p", "l", "e", "x", "i", "t", "y", "b", "o", "t">> >>,
       category |-> "ai_search", severity |-> "medium",
       description |-> "Perplexity AI search engine",
       recommendation |-> "rate_limit"],
       [name |-> "YouBot",
       pattern |-> << <<"y", "o", "u", "b", "o", "t">> >>,
       category |-> "ai_search", severity |-> "medium",
       description |-> "You.com search bot",
       recommendation |-> "rate_limit"],
       [name |-> "Googlebot",
       pattern |-> << <<"g", "o", "o", "g", "l", "e", "b", "o", "t">> >>,
       category |-> "search_engine", severity |-> "low",
       description |-> "Google search crawler",
       recommendation |-> "allow"],
       [name |-> "bingbot",
       pattern |-> << <<"b", "i", "n", "g", "b", "o", "t">> >>,
       category |-> "search_engine", severity |-> "low",
       description |-> "Bing search crawler",
       recommendation |-> "allow"],
       [name |-> "Baiduspider",
       pattern |-> << <<"b", "a", "i", "d", "u", "s", "p", "i", "d", "e", "r">> >>,
       category |-> "search_engine", severity |-> "low",
       description |-> "Baidu search crawler",
       recommendation |-> "rate_limit"],
       [name |-> "YandexBot",
       pattern |-> << <<"y", "a", "n", "d", "e", "x", "b", "o", "t">> >>,
       category |-> "search_engine", severity |-> "low",
       description |-> "Yandex search crawler",
       recommendation |-> "rate_limit"],
       [name |-> "DuckDuckBot",
       pattern |-> << <<"d", "u", "c", "k", "d", "u", "c", "k", "b", "o", "t">> >>,
       category |-> "search_engine", severity |-> "low",
       description |-> "DuckDuckGo search crawler",
       recommendation |-> "allow"],
       [name |-> "CCBot",
       pattern |-> << <<"c", "c", "b", "o", "t">> >>,
       category |-> "ai_scraper", severity |-> "critical",
       description |-> "Common Crawl bot - Very aggressive",
       recommendation |-> "block"],
       [name |-> "Bytespider",
       pattern |-> << <<"b", "y", "t", "e", "s", "p", "i", "d", "e", "r">> >>,
       category |-> "ai_scraper", severity |-> "critical",
       description |-> "ByteDance aggressive crawler",
       recommendation |-> "block"],
       [name |-> "PetalBot",
       pattern |-> << <<"p", "e", "t", "a", "l", "b", "o", "t">> >>,
       category |-> "scraper", severity |-> "high",
       description |-> "Huawei Petal search crawler",
       recommendation |-> "block"],
       [name |-> "MJ12bot",
       pattern |-> << <<"m", "j", "1", "2", "b", "o", "t">> >>,
       category |-> "scraper", severity |-> "critical",
       description |-> "Majestic SEO crawler - Known for aggressive crawling",
       recommendation |-> "block"],
       [name |-> "DataForSeoBot",
       pattern |-> << <<"d", "a", "t", "a", "f", "o", "r", "s", "e", "o", "b", "o", "t">> >>,
       category |-> "ai_scraper", severity |-> "high",
       description |-> "SEO data scraper",
       recommendation |-> "block"],
       [name |-> "SemrushBot",
       pattern |-> << <<"s", "e", "m", "r", "u", "s", "h", "b", "o", "t">> >>,
       category |-> "seo_tool", severity |-> "medium",
       description |-> "Semrush SEO analysis",
       recommendation |-> "rate_limit"],
       [name |-> "AhrefsBot",
       pattern |-> << <<"a", "h", "r", "e", "f", "s", "b", "o", "t">> >>,
       category |-> "seo_tool", severity |-> "medium",
       description |-> "Ahrefs SEO crawler",
       recommendation |-> "rate_limit"],
       [name |-> "Screaming Frog",
       pattern |-> << <<"s", "c", "r", "e", "a", "m", "i", "n", "g", " ", "f", "r", "o", "g", " ", "s", "e", "o", " ", "s", "p", "i", "d", "e", "r">> >>,
       category |-> "seo_tool", severity |-> "medium",
       description |-> "SEO audit tool",
       recommendation |-> "rate_limit"],
       [name |-> "facebookexternalhit",
       pattern |-> << <<"f", "a", "c", "e", "b", "o", "o", "k", "e", "x", "t", "e", "r", "n", "a", "l", "h", "i", "t">> >>,
       category |-> "social_media", severity |-> "low",
       description |-> "Facebook link preview",
       recommendation |-> "allow"],
       [name |-> "Twitterbot",
       pattern |-> << <<"t", "w", "i", "t", "t", "e", "r", "b", "o", "t">> >>,
       category |-> "social_media", severity |-> "low",
       description |-> "Twitter/X link preview",
       recommendation |-> "allow"],
       [name |-> "LinkedInBot",
       pattern |-> << <<"l", "i", "n", "k", "e", "d", "i", "n", "b", "o", "t">> >>,
       category |-> "social_media", severity |-> "low",
       description |-> "LinkedIn link preview",
       recommendation |-> "allow"],
       [name |-> "WhatsApp",
       pattern |-> << <<"w", "h", "a", "t", "s", "a", "p", "p">> >>,
       category |-> "social_media", severity |-> "low",
       description |-> "WhatsApp link preview",
       recommendation |-> "allow"],
       [name |-> "Slackbot",
       pattern |-> << <<"s", "l", "a", "c", "k", "b", "o", "t">> >>,
       category |-> "social_media", severity |-> "low",
       description |-> "Slack link preview",
       recommendation |-> "allow"],
       [name |-> "UptimeRobot",
       pattern |-> << <<"u", "p", "t", "i", "m", "e", "r", "o", "b", "o", "t">> >>,
       category |-> "monitoring", severity |-> "low",
       description |-> "Uptime monitoring service",
       recommendation |-> "allow"],
       [name |-> "Pingdom",
       pattern |-> << <<"p", "i", "n", "g", "d", "o", "m">> >>,
       category |-> "monitoring", severity |-> "low",
       description |-> "Website monitoring",
       recommendation |-> "allow"] >>

\* the generic patterns tried from the most to the least confident
genericPatternsByConfidence ==
    << [pattern |-> << <<"h", "e", "a", "d", "l", "e", "s", "s">>,
                     <<"p", "h", "a", "n", "t", "o", "m">>,
                     <<"p", "u", "p", "p", "e", "t", "e", "e", "r">>,
                     <<"p", "l", "a", "y", "w", "r", "i", "g", "h", "t">> >>,
        confidence |-> 90],
       [pattern |-> << <<"b", "o", "t">>,
                     <<"c", "r", "a", "w", "l", "e", "r">>,
                     <<"s", "p", "i", "d", "e", "r">>,
                     <<"s", "c", "r", "a", "p", "e", "r">>,
                     <<"c", "r", "a", "w", "l">> >>,
        confidence |-> 80],
       [pattern |-> << <<"p", "y", "t", "h", "o", "n", "-", "r", "e", "q", "u", "e", "s", "t", "s">>,
                     <<"u", "r", "l", "l", "i", "b">>,
                     <<"w", "g", "e", "t">>,
                     <<"c", "u", "r", "l">>,
                     <<"a", "x", "i", "o", "s">> >>,
        confidence |-> 70] >>

genericPatterns ==
    << [pattern |-> << <<"b", "o", "t">>,
                     <<"c", "r", "a", "w", "l", "e", "r">>,
                     <<"s", "p", "i", "d", "e", "r">>,
                     <<"s", "c", "r", "a", "p", "e", "r">>,
                     <<"c", "r", "a", "w", "l">> >>,
        confidence |-> 80],
       [pattern |-> << <<"p", "y", "t", "h", "o", "n", "-", "r", "e", "q", "u", "e", "s", "t", "s">>,
                     <<"u", "r", "l", "l", "i", "b">>,
                     <<"w", "g", "e", "t">>,
                     <<"c", "u", "r", "l">>,
                     <<"a", "x", "i", "o", "s">> >>,
        confidence |-> 70],
       [pattern |-> << <<"h", "e", "a", "d", "l", "e", "s", "s">>,
                     <<"p", "h", "a", "n", "t", "o", "m">>,
                     <<"p", "u", "p", "p", "e", "t", "e", "e", "r">>,
                     <<"p", "l", "a", "y", "w", "r", "i", "g", "h", "t">> >>,
        confidence |-> 90] >>

NotABot ==
    [isBot |-> FALSE, botName |-> Null, category |-> Null,
     severity |-> Null, description |-> Undefined,
     recommendation |-> Undefined, confidence |-> 100]

KnownBot(sig) ==
    [isBot |-> TRUE, botName |-> sig.name, category |-> sig.category,
     severity |-> sig.severity, description |-> sig.description,
     recommendation |-> sig.recommendation, confidence |-> 95]

\* the generic result with the name left unset
UnknownBotUnnamed(confidence) ==
    [isBot |-> TRUE, botName |-> Null, category |-> "scraper",
     severity |-> "medium", description |-> "Unidentified bot or scraper",
     recommendation |-> "rate_limit", confidence |-> confidence]

UnknownBot(confidence) ==
    [isBot |-> TRUE, botName |-> "Unknown Bot", category |-> "scraper",
     severity |-> "medium", description |-> "Unidentified bot or scraper",
     recommendation |-> "rate_limit", confidence |-> confidence]

RECURSIVE genericLoop(_, _, _)
\* the for-of loop over genericPatterns, from entry g, after n tests
genericLoop(userAgent, g, n) ==
    IF g > Len(genericPatterns)
    THEN [result |-> NotABot, tests |-> n]
    ELSE IF Test(genericPatterns[g].pattern, userAgent)
         THEN [result |-> UnknownBot(genericPatterns[g].confidence),
               tests |-> n + 1]
         ELSE genericLoop(userAgent, g + 1, n + 1)

RECURSIVE signatureLoopLastMatch(_, _)
\* the loop with the return replaced by an assignment: the last match wins
signatureLoopLastMatch(userAgent, i) ==
    IF i > Len(signatures)
    THEN genericLoop(userAgent, 1, Len(signatures))
    ELSE IF /\ Test(signatures[i].pattern, userAgent)
            /\ \A j \in (i + 1)..Len(signatures) :
                   ~Test(signatures[j].pattern, userAgent)
         THEN [result |-> KnownBot(signatures[i]), tests |-> Len(signatures)]
         ELSE signatureLoopLastMatch(userAgent, i + 1)

RECURSIVE signatureLoop(_, _)
\* the for-of loop over signatures.entries(), from entry i
signatureLoop(userAgent, i) ==
    IF i > Len(signatures)
    THEN genericLoop(userAgent, 1, Len(signatures))
    ELSE IF Test(signatures[i].pattern, userAgent)
         THEN [result |-> KnownBot(signatures[i]), tests |-> i]
         ELSE signatureLoop(userAgent, i + 1)

\* a value passed as userAgent: a string, or null / undefined (no type
\* check survives compilation); chars is the string's content
Str(chars) == [type |-> "string", chars |-> chars]

NullValue == [type |-> "null", chars |-> <<>>]

UndefinedValue == [type |-> "undefined", chars |-> <<>>]

\* userAgent == null: the empty string is let through
FalsyNullish(userAgent) == userAgent.type # "string"

\* !userAgent
Falsy(userAgent) == userAgent.type # "string" \/ userAgent.chars = <<>>

detect(userAgent) ==
    IF Falsy(userAgent)
    THEN [result |-> NotABot, tests |-> 0]
    ELSE signatureLoop(userAgent.chars, 1)

\* detectBatch: userAgents.map(ua => this.detect(ua))
detectBatch(userAgents) ==
    [i \in 1..Len(userAgents) |-> detect(userAgents[i]).result]

\* a tally created with a key at zero
seededTally == [key \in {"scraper", "medium", "rate_limit"} |-> 0]

\* {} as Record<string, number>
emptyTally == [key \in {} |-> 0]

\* if (value): null, undefined and the empty string are skipped
truthyField(value) == value \notin {Null, Undefined, ""}

\* tally[key] = (tally[key] || 0) + 1
increment(tally, key) ==
    IF key \in DOMAIN tally
    THEN [tally EXCEPT ![key] = @ + 1]
    ELSE (key :> 1) @@ tally

countField(tally, value) ==
    IF truthyField(value) THEN increment(tally, value) ELSE tally

RECURSIVE statisticsLoop(_, _, _)
statisticsLoop(results, i, stats) ==
    IF i > Len(results) THEN stats
    ELSE LET result == results[i]
         IN  IF result.isBot
             THEN statisticsLoop(results, i + 1,
                      [stats EXCEPT
                          !.bots = @ + 1,
                          !.byCategory = countField(@, result.category),
                          !.bySeverity = countField(@, result.severity),
                          !.recommendations =
                              countField(@, result.recommendation)])
             ELSE statisticsLoop(results, i + 1,
                      [stats EXCEPT !.humans = @ + 1])

getStatistics(results) ==
    statisticsLoop(results, 1,
        [total |-> Len(results), bots |-> 0, humans |-> 0,
         byCategory |-> emptyTally, bySeverity |-> emptyTally,
         recommendations |-> emptyTally])

(***************************************************************************)
(* generateRobotsTxt.  The document is the sequence of its lines, a line   *)
(* the sequence of the strings it is put together from, <<>> an empty      *)
(* line.  rateLimitedBots, a Map, is the sequence of its <<bot, delay>>    *)
(* entries in insertion order; now is the text of new Date().toISOString().*)
(***************************************************************************)
header(now) ==
    << <<"# AI Crawler Monitor - Generated robots.txt">>,
       <<"# Generated: ", now>>,
       <<>> >>

allowedSection ==
    << <<"# Search Engines (Allowed)">>,
       <<"User-agent: ", "Googlebot">>, <<"Allow: /">>, <<>>,
       <<"User-agent: ", "bingbot">>, <<"Allow: /">>, <<>> >>

RECURSIVE blockedLoop(_, _)
blockedLoop(blockedBots, i) ==
    IF i > Len(blockedBots) THEN <<>>
    ELSE << <<"User-agent: ", blockedBots[i]>>, <<"Disallow: /">>, <<>> >>
         \o blockedLoop(blockedBots, i + 1)

blockedSection(blockedBots) ==
    IF Len(blockedBots) > 0
    THEN << <<"# Blocked Bots">> >> \o blockedLoop(blockedBots, 1)
    ELSE <<>>

RECURSIVE rateLimitedLoop(_, _)
rateLimitedLoop(rateLimitedBots, i) ==
    IF i > Len(rateLimitedBots) THEN <<>>
    ELSE << <<"User-agent: ", rateLimitedBots[i][1]>>,
            <<"Crawl-delay: ", ToString(rateLimitedBots[i][2])>>,
            <<"Allow: /">>, <<>> >>
         \o rateLimitedLoop(rateLimitedBots, i + 1)

rateLimitedSection(rateLimitedBots) ==
    IF Len(rateLimitedBots) > 0
    THEN << <<"# Rate Limited Bots">> >>
         \o rateLimitedLoop(rateLimitedBots, 1)
    ELSE <<>>

defaultSection ==
    << <<"# Default">>, <<"User-agent: ", "*">>, <<"Allow: /">>,
       <<"Sitemap: /sitemap.xml">> >>

\* the rate-limited section put before the blocked one
generateRobotsTxtRateFirst(blockedBots, rateLimitedBots, now) ==
    header(now) \o allowedSection \o rateLimitedSection(rateLimitedBots)
    \o blockedSection(blockedBots) \o defaultSection

generateRobotsTxt(blockedBots, rateLimitedBots, now) ==
    header(now) \o allowedSection \o blockedSection(blockedBots)
    \o rateLimitedSection(rateLimitedBots) \o defaultSection

(***************************************************************************)
(* CostCalculator.  Numbers are exact rationals over fixed denominators:   *)
(*   traffic (bytesTransferred, gb, tier bounds): UnitsPerGB units to the  *)
(*     GB, so that gb = bytes / 1024^3 is the same count of units;         *)
(*   rates (costPerGB): thousandths of a dollar per GB;                    *)
(*   money (cost, total, monthly, yearly): 1 / (1000 * UnitsPerGB) dollar, *)
(*     so that units * rate is a cost;                                     *)
(*   savingsPerMonth: tenths of the money unit, for the factors 0.7, 0.5;  *)
(*   multipliers and factors: tenths.                                      *)
(***************************************************************************)
\* thirds of a GB, for traffic that costs exactly 10, 20 or 50 dollars a
\* month, in tenths, for the category multipliers
UnitsPerGB == 3 * 10

GB(n) == n * UnitsPerGB

Dollars(n) == n * 1000 * UnitsPerGB

\* an optional property of an object: absent, or present with a value
None == <<>>

Some(v) == <<v>>

Tier(upToGB, costPerGB) ==
    [infinite |-> FALSE, upToGB |-> GB(upToGB), costPerGB |-> costPerGB]

\* upToGB: Infinity
LastTier(costPerGB) ==
    [infinite |-> TRUE, upToGB |-> 0, costPerGB |-> costPerGB]

providers ==
    [aws |->
        [name |-> "Amazon Web Services",
         costPerGB |-> None,
         freeGBIncluded |-> Some(GB(1)),
         tieredPricing |->
            Some(<<Tier(10, 90), Tier(40, 85), Tier(100, 70), Tier(150, 50),
              LastTier(30)>>)],
     cloudflare |->
        [name |-> "Cloudflare",
         costPerGB |-> Some(45),
         freeGBIncluded |-> Some(GB(0)),
         tieredPricing |-> None],
     vercel |->
        [name |-> "Vercel",
         costPerGB |-> Some(400),
         freeGBIncluded |-> Some(GB(100)),
         tieredPricing |-> None],
     netlify |->
        [name |-> "Netlify",
         costPerGB |-> Some(550),
         freeGBIncluded |-> Some(GB(100)),
         tieredPricing |-> None],
     gcp |->
        [name |-> "Google Cloud Platform",
         costPerGB |-> None,
         freeGBIncluded |-> None,
         tieredPricing |->
            Some(<<Tier(1, 0), Tier(10, 120), Tier(150, 110), LastTier(80)>>)],
     azure |->
        [name |-> "Microsoft Azure",
         costPerGB |-> None,
         freeGBIncluded |-> None,
         tieredPricing |->
            Some(<<Tier(5, 87), Tier(10, 83), Tier(50, 70), Tier(150, 50),
              LastTier(30)>>)],
     digitalocean |->
        [name |-> "DigitalOcean",
         costPerGB |-> Some(10),
         freeGBIncluded |-> Some(GB(1000)),
         tieredPricing |-> None],
     generic |->
        [name |-> "Generic Provider",
         costPerGB |-> Some(100),
         freeGBIncluded |-> Some(GB(0)),
         tieredPricing |-> None]]

botCostMultipliers ==
    [ai_training |-> 15, ai_scraper |-> 18, ai_search |-> 12,
     search_engine |-> 5, social_media |-> 3, seo_tool |-> 10,
     scraper |-> 15, unknown |-> 10]

\* an optional number in a condition: undefined and 0 are false
Truthy(n) == n # None /\ n[1] # 0

\* n || d, for an optional number n
OrElse(n, d) == IF Truthy(n) THEN n[1] ELSE d

MinOf(a, b) == IF a <= b THEN a ELSE b

MaxOf(a, b) == IF a >= b THEN a ELSE b

\* the tier billed for all that remains, whatever its width
tierGBUncapped(remainingGB, tier, previousTierLimit) == remainingGB

\* Math.min(remainingGB, tier.upToGB - previousTierLimit)
tierGB(remainingGB, tier, previousTierLimit) ==
    IF tier.infinite
    THEN remainingGB
    ELSE MinOf(remainingGB, tier.upToGB - previousTierLimit)

RECURSIVE tierLoopOverwriting(_, _, _, _, _)
\* the loop with totalCost assigned instead of accumulated
tierLoopOverwriting(tiers, t, remainingGB, totalCost, previousTierLimit) ==
    IF t > Len(tiers) THEN totalCost
    ELSE LET g == tierGB(remainingGB, tiers[t], previousTierLimit)
             billed == g > 0
             remaining == IF billed THEN remainingGB - g ELSE remainingGB
             total == IF billed THEN g * tiers[t].costPerGB ELSE totalCost
             previous == IF billed THEN tiers[t].upToGB ELSE previousTierLimit
         IN  IF remaining <= 0 THEN total
             ELSE tierLoopOverwriting(tiers, t + 1, remaining, total, previous)

RECURSIVE tierLoop(_, _, _, _, _)
\* the for-of loop over tiers, from tier t
tierLoop(tiers, t, remainingGB, totalCost, previousTierLimit) ==
    IF t > Len(tiers) THEN totalCost
    ELSE LET g == tierGB(remainingGB, tiers[t], previousTierLimit)
             billed == g > 0
             remaining == IF billed THEN remainingGB - g ELSE remainingGB
             total == IF billed THEN totalCost + g * tiers[t].costPerGB
                      ELSE totalCost
             previous == IF billed THEN tiers[t].upToGB ELSE previousTierLimit
         IN  IF remaining <= 0 THEN total
             ELSE tierLoop(tiers, t + 1, remaining, total, previous)

\* the gigabytes of the tiers the loop does not reach
unbilled(n) == [k \in 1..n |-> 0]

RECURSIVE billedLoop(_, _, _, _)
\* the tierGB the for-of loop bills at each tier, from tier t: 0 for a tier
\* whose tierGB is not positive and for the tiers after the break
billedLoop(tiers, t, remainingGB, previousTierLimit) ==
    IF t > Len(tiers) THEN <<>>
    ELSE LET g == tierGB(remainingGB, tiers[t], previousTierLimit)
         IN  IF g > 0
             THEN <<g>> \o (IF remainingGB - g <= 0
                            THEN unbilled(Len(tiers) - t)
                            ELSE billedLoop(tiers, t + 1, remainingGB - g,
                                            tiers[t].upToGB))
             ELSE <<0>> \o (IF remainingGB <= 0
                            THEN unbilled(Len(tiers) - t)
                            ELSE billedLoop(tiers, t + 1, remainingGB,
                                            previousTierLimit))

\* everything priced at the rate of the tier the amount falls in
calculateTieredCostTopRate(gb, tiers) ==
    IF \E t \in 1..Len(tiers) : tiers[t].infinite \/ gb <= tiers[t].upToGB
    THEN gb * tiers[CHOOSE t \in 1..Len(tiers) :
                        /\ tiers[t].infinite \/ gb <= tiers[t].upToGB
                        /\ \A u \in 1..(t - 1) :
                               ~tiers[u].infinite /\ gb > tiers[u].upToGB
                   ].costPerGB
    ELSE 0

calculateTieredCost(gb, tiers) == tierLoop(tiers, 1, gb, 0, 0)

\* provider: string = 'generic'
withDefault(provider) == IF provider = Undefined THEN "generic" ELSE provider

\* the fallback taken from the first entry of the registry
providerConfigFirst(provider) ==
    IF provider \in DOMAIN providers
    THEN providers[provider]
    ELSE providers["aws"]

\* this.providers.get(provider) || this.providers.get('generic')!
providerConfig(provider) ==
    IF provider \in DOMAIN providers
    THEN providers[provider]
    ELSE providers["generic"]

\* the free tier subtracted without the floor at zero
billableGBUnfloored(gb, config) ==
    IF Truthy(config.freeGBIncluded)
    THEN gb - config.freeGBIncluded[1]
    ELSE gb

billableGB(gb, config) ==
    IF Truthy(config.freeGBIncluded)
    THEN MaxOf(0, gb - config.freeGBIncluded[1])
    ELSE gb

\* the breakdown with a 31-day month
CostBreakdown31(gb, cost) ==
    [bandwidth |-> [gb |-> gb, cost |-> cost],
     total |-> cost, monthly |-> cost * 31, yearly |-> cost * 365]

CostBreakdown(gb, cost) ==
    [bandwidth |-> [gb |-> gb, cost |-> cost],
     total |-> cost, monthly |-> cost * 30, yearly |-> cost * 365]

calculateBandwidthCost(bytesTransferred, provider) ==
    LET gb == bytesTransferred
        config == providerConfig(withDefault(provider))
        billable == billableGB(gb, config)
        cost == IF config.tieredPricing # None
                THEN calculateTieredCost(billable, config.tieredPricing[1])
                ELSE billable * OrElse(config.costPerGB, 0)
    IN  CostBreakdown(gb, cost)

\* every category weighted 1.0
multiplierOfOne(category) == 10

\* this.botCostMultipliers[bot.category] || 1.0
multiplierOf(category) ==
    IF category \in DOMAIN botCostMultipliers /\ botCostMultipliers[category] # 0
    THEN botCostMultipliers[category]
    ELSE 10

RECURSIVE savingsLoop(_, _, _, _, _)
\* the for-of loop over botTraffic, from record b
savingsLoop(botTraffic, b, provider, breakdown, totalSavings) ==
    IF b > Len(botTraffic)
    THEN [breakdown |-> breakdown, totalSavings |-> totalSavings]
    ELSE LET bot == botTraffic[b]
             adjustedBytes == (bot.bytesTransferred * multiplierOf(bot.category)) \div 10
             cost == calculateBandwidthCost(adjustedBytes, provider)
         IN  savingsLoop(botTraffic, b + 1, provider,
                         (bot.category :> cost) @@ breakdown,
                         totalSavings + cost.total)

\* the aggregate with a 12-month year of 30-day months
SavingsResult360(totalSavings, breakdown) ==
    [total |-> totalSavings, monthly |-> totalSavings * 30,
     yearly |-> totalSavings * 360, byCategory |-> breakdown]

SavingsResult(totalSavings, breakdown) ==
    [total |-> totalSavings, monthly |-> totalSavings * 30,
     yearly |-> totalSavings * 365, byCategory |-> breakdown]

calculateSavingsByCategory(botTraffic, provider) ==
    LET end == savingsLoop(botTraffic, 1, withDefault(provider), <<>>, 0)
    IN  SavingsResult(end.totalSavings, end.breakdown)

\* monthlyCost.toFixed(2), in cents: the nearest cent, halves upwards
toFixed2(amount) ==
    LET unit == Dollars(1)
    IN  (amount \div unit) * 100 + ((amount % unit) * 200 + unit) \div (2 * unit)

\* the rule table with the scraper threshold met at 10 dollars already
decideInclusive(bot, monthlyCost) ==
    IF bot.category = "ai_scraper" /\ monthlyCost >= Dollars(10)
    THEN Some([action |-> "block", target |-> bot.botName,
               reason |-> <<"Aggressive scraper costing $",
                            toFixed2(monthlyCost),
                            "/month with minimal SEO benefit">>,
               savingsPerMonth |-> monthlyCost * 10, confidence |-> 95])
    ELSE IF bot.category = "ai_training" /\ monthlyCost > Dollars(50)
    THEN Some([action |-> "rate_limit", target |-> bot.botName,
               reason |-> <<"AI training bot consuming excessive bandwidth. Rate limiting can reduce costs by 70%">>,
               savingsPerMonth |-> monthlyCost * 7, confidence |-> 85])
    ELSE IF bot.category = "search_engine"
    THEN Some([action |-> "allow", target |-> bot.botName,
               reason |-> <<"Essential for SEO and organic traffic">>,
               savingsPerMonth |-> 0, confidence |-> 100])
    ELSE IF bot.category = "seo_tool" /\ monthlyCost > Dollars(20)
    THEN Some([action |-> "rate_limit", target |-> bot.botName,
               reason |-> <<"SEO tool with high bandwidth usage. Consider rate limiting to reduce costs">>,
               savingsPerMonth |-> monthlyCost * 5, confidence |-> 75])
    ELSE None

\* the if / else-if chain: the recommendation pushed for one bot, if any
decide(bot, monthlyCost) ==
    IF bot.category = "ai_scraper" /\ monthlyCost > Dollars(10)
    THEN Some([action |-> "block", target |-> bot.botName,
               reason |-> <<"Aggressive scraper costing $",
                            toFixed2(monthlyCost),
                            "/month with minimal SEO benefit">>,
               savingsPerMonth |-> monthlyCost * 10, confidence |-> 95])
    ELSE IF bot.category = "ai_training" /\ monthlyCost > Dollars(50)
    THEN Some([action |-> "rate_limit", target |-> bot.botName,
               reason |-> <<"AI training bot consuming excessive bandwidth. Rate limiting can reduce costs by 70%">>,
               savingsPerMonth |-> monthlyCost * 7, confidence |-> 85])
    ELSE IF bot.category = "search_engine"
    THEN Some([action |-> "allow", target |-> bot.botName,
               reason |-> <<"Essential for SEO and organic traffic">>,
               savingsPerMonth |-> 0, confidence |-> 100])
    ELSE IF bot.category = "seo_tool" /\ monthlyCost > Dollars(20)
    THEN Some([action |-> "rate_limit", target |-> bot.botName,
               reason |-> <<"SEO tool with high bandwidth usage. Consider rate limiting to reduce costs">>,
               savingsPerMonth |-> monthlyCost * 5, confidence |-> 75])
    ELSE None

RECURSIVE recommendLoop(_, _, _, _)
\* the for-of loop over botTraffic, from record b
recommendLoop(botTraffic, b, provider, recommendations) ==
    IF b > Len(botTraffic) THEN recommendations
    ELSE LET bot == botTraffic[b]
             cost == calculateBandwidthCost(bot.bytesTransferred, provider)
         IN  recommendLoop(botTraffic, b + 1, provider,
                           recommendations \o decide(bot, cost.monthly))

\* (a, b) => b.savingsPerMonth - a.savingsPerMonth
compare(a, b) == b.savingsPerMonth - a.savingsPerMonth

\* an insertion that puts r before the entries it compares equal to
insertUnstable(sorted, r) ==
    LET k == Cardinality({i \in 1..Len(sorted) : compare(sorted[i], r) < 0})
    IN  SubSeq(sorted, 1, k) \o <<r>> \o SubSeq(sorted, k + 1, Len(sorted))

\* r placed after every entry that does not compare greater than it
insert(sorted, r) ==
    LET k == Cardinality({i \in 1..Len(sorted) : compare(sorted[i], r) <= 0})
    IN  SubSeq(sorted, 1, k) \o <<r>> \o SubSeq(sorted, k + 1, Len(sorted))

RECURSIVE sort(_)
\* Array.prototype.sort with compare: a stable sort (ECMAScript 2019)
sort(array) ==
    IF array = <<>> THEN <<>>
    ELSE insert(sort(SubSeq(array, 1, Len(array) - 1)), array[Len(array)])

generateRecommendations(botTraffic, provider) ==
    sort(recommendLoop(botTraffic, 1, withDefault(provider), <<>>))

\* a number that may be infinite: the ratio num / den, or Infinity
Ratio(num, den) == [infinite |-> FALSE, num |-> num, den |-> den]

Finite(n) == Ratio(n, 1)

Infinity == [infinite |-> TRUE, num |-> 1, den |-> 0]

\* (num / den) * 100 for den > 0, kept in hundreds of percent: the ratio
\* of which the percentage is the hundredfold
Percent(num, den) == Ratio(num, den)

\* a / b for a > 0 and b >= 0: division by zero is Infinity
divide(a, b) == IF b = 0 THEN Infinity ELSE Ratio(a, b)

\* Math.ceil of a positive number
ceil(x) ==
    IF x.infinite THEN Infinity
    ELSE Finite((x.num + x.den - 1) \div x.den)

\* implementationCost: number = 0
costOrZero(implementationCost) ==
    IF implementationCost = None THEN 0 ELSE implementationCost[1]

calculateROI(currentBotTraffic, provider, implementationCost) ==
    LET cost == costOrZero(implementationCost)
        dailyCost == calculateBandwidthCost(currentBotTraffic, provider)
        monthlySavings == dailyCost.monthly
        yearlySavings == dailyCost.yearly
        breakEvenDays == IF cost > 0
                         THEN ceil(divide(cost, dailyCost.total))
                         ELSE Finite(0)
        roi == IF cost > 0
               THEN Percent(yearlySavings - cost, cost)
               ELSE Infinity
    IN  [breakEvenDays |-> breakEvenDays, monthlySavings |-> monthlySavings,
         yearlySavings |-> yearlySavings, roi |-> roi]

(***************************************************************************)
(* LogParser (lib/log-parser.ts).  A line is a tuple of characters.  The    *)
(* values the parser handles are JavaScript values of any type, kept as a  *)
(* type tag and a value: a number is the pair <<num, den>> of the exact    *)
(* decimal num / den, an object is the sequence of its <<key, value>>      *)
(* members, a Date holds the value it was constructed from (the time value *)
(* is not computed).                                                       *)
(***************************************************************************)
Js(type, value) == [type |-> type, value |-> value]

JsUndefined == Js("undefined", <<>>)

JsNull == Js("null", <<>>)

JsString(chars) == Js("string", chars)

JsNumber(num, den) == Js("number", <<num, den>>)

JsBoolean(b) == Js("boolean", b)

JsArray(elements) == Js("array", elements)

JsObject(members) == Js("object", members)

\* new Date(value)
NewDate(value) == Js("Date", value)

LogEntry(fields) == Js("LogEntry", fields)

DigitValue ==
    ("0" :> 0) @@ ("1" :> 1) @@ ("2" :> 2) @@ ("3" :> 3) @@ ("4" :> 4)
    @@ ("5" :> 5) @@ ("6" :> 6) @@ ("7" :> 7) @@ ("8" :> 8) @@ ("9" :> 9)

\* parseInt of a string of decimal digits
RECURSIVE parseInt(_)
parseInt(digits) ==
    IF digits = <<>> THEN 0
    ELSE parseInt(SubSeq(digits, 1, Len(digits) - 1)) * 10
         + DigitValue[digits[Len(digits)]]

\* the character classes of the common-log pattern
InClass(class, c) ==
    CASE class = "\\S" -> c \notin {" ", "\t", "\n", "\r", "\f"}
      [] class = "\\d" -> IsDigit(c)
      [] class = "[^\\]]" -> c # "]"
      [] class = "[^\"]" -> c # "\""

\* a literal character of a pattern
Lit(c) == [kind |-> "lit", char |-> c, class |-> "", min |-> 1, group |-> 0]

\* a greedy repetition of a class, class+ (min 1) or class* (min 0), that
\* is capture group number group when group > 0
Rep(class, min, group) ==
    [kind |-> "rep", char |-> "", class |-> class, min |-> min,
     group |-> group]

NoMatch == [ok |-> FALSE, lens |-> <<>>]

\* the first position from pos on whose character is not in the set, the
\* position after the end if there is none
firstOutside(str, pos, set) ==
    LET outside == {i \in pos..Len(str) : str[i] \notin set}
    IN  IF outside = {} THEN Len(str) + 1
        ELSE CHOOSE i \in outside : \A j \in outside : i <= j

\* how many characters from pos on are in the class
runLength(str, pos, class) ==
    firstOutside(str, pos,
                 {str[i] : i \in {j \in pos..Len(str) :
                                     InClass(class, str[j])}}) - pos

\* item k matched n characters and the items after it matched rest
prepend(n, rest) ==
    IF rest.ok THEN [ok |-> TRUE, lens |-> <<n>> \o rest.lens] ELSE NoMatch

\* a repetition: rest[n] is the match of the following items after n
\* characters; the longest n that lets them match is taken
longestOf(rest) ==
    LET lengths == {n \in DOMAIN rest : rest[n].ok}
    IN  IF lengths = {} THEN NoMatch
        ELSE prepend(CHOOSE n \in lengths : \A m \in lengths : m <= n,
                     rest[CHOOSE n \in lengths : \A m \in lengths : m <= n])

RECURSIVE matchItems(_, _, _, _)
\* match items[k..] against str[pos..] up to the end of str ($): the
\* lengths the items matched, longest repetition first, backtracking
matchItems(items, k, str, pos) ==
    IF k > Len(items) THEN [ok |-> pos = Len(str) + 1, lens |-> <<>>]
    ELSE IF items[k].kind = "lit"
    THEN IF pos <= Len(str) /\ str[pos] = items[k].char
         THEN prepend(1, matchItems(items, k + 1, str, pos + 1))
         ELSE NoMatch
    ELSE longestOf([n \in items[k].min..
                            runLength(str, pos, items[k].class) |->
                       matchItems(items, k + 1, str, pos + n)])

RECURSIVE startOf(_, _)
\* where item k of a match begins
startOf(lens, k) == IF k = 1 THEN 1 ELSE startOf(lens, k - 1) + lens[k - 1]

\* what item k matched
matched(str, lens, k) ==
    SubSeq(str, startOf(lens, k), startOf(lens, k) + lens[k] - 1)

\* the match object of a match m: match[g] is groups[g]
groupsOf(str, items, m) ==
    IF ~m.ok THEN [ok |-> FALSE, groups |-> <<>>]
    ELSE [ok |-> TRUE,
          groups |->
            [g \in 1..Cardinality({k \in 1..Len(items) :
                                      items[k].group > 0}) |->
                matched(str, m.lens,
                        CHOOSE k \in 1..Len(items) : items[k].group = g)]]

\* str.match(pattern) for an anchored pattern
match(str, items) == groupsOf(str, items, matchItems(items, 1, str, 1))

\* /^(\S+) \S+ \S+ \[([^\]]+)\] "(\S+) (\S+) \S+" (\d+) (\d+) "[^"]*" "([^"]*)"$/
commonLogPattern ==
    << Rep("\\S", 1, 1), Lit(" "), Rep("\\S", 1, 0), Lit(" "),
       Rep("\\S", 1, 0), Lit(" "),
       Lit("["), Rep("[^\\]]", 1, 2), Lit("]"), Lit(" "),
       Lit("\""), Rep("\\S", 1, 3), Lit(" "), Rep("\\S", 1, 4), Lit(" "),
       Rep("\\S", 1, 0), Lit("\""), Lit(" "),
       Rep("\\d", 1, 5), Lit(" "), Rep("\\d", 1, 6), Lit(" "),
       Lit("\""), Rep("[^\"]", 0, 0), Lit("\""), Lit(" "),
       Lit("\""), Rep("[^\"]", 0, 7), Lit("\"") >>

\* Math.floor(random * 500), random in thousandths
randomResponseTime(random) == (random * 500) \div 1000

\* the common-log entry with a given responseTime
commonLogEntry(groups, responseTime) ==
    LogEntry([ip |-> JsString(groups[1]),
              timestamp |-> NewDate(JsString(groups[2])),
              method |-> JsString(groups[3]),
              path |-> JsString(groups[4]),
              status |-> JsNumber(parseInt(groups[5]), 1),
              bytes |-> JsNumber(parseInt(groups[6]), 1),
              userAgent |-> JsString(groups[7]),
              responseTime |-> responseTime])

\* if (!match) return null, else the entry
entryOfMatch(m, random) ==
    IF ~m.ok THEN JsNull
    ELSE commonLogEntry(m.groups, JsNumber(randomResponseTime(random), 1))

\* random is the value Math.random() returns during the call
parseCommonLog(line, random) ==
    entryOfMatch(match(line, commonLogPattern), random)

(***************************************************************************)
(* JSON.parse, for the JSON of the lines drawn below: objects, arrays,     *)
(* strings without escape sequences, decimal numbers without exponent,     *)
(* true, false, null, white space between tokens (no line drawn holds a    *)
(* backslash or an exponent).  A parse returns the value and the position  *)
(* after it, or SyntaxError.                                               *)
(***************************************************************************)
Parsed(value, next) == [ok |-> TRUE, value |-> value, next |-> next]

SyntaxError == [ok |-> FALSE, value |-> JsUndefined, next |-> 0]

skipWhitespace(text, pos) ==
    firstOutside(text, pos, {" ", "\t", "\n", "\r"})

\* the string whose opening quote is before pos: it runs to the next quote
\* and holds no control character
jsonString(text, pos) ==
    LET quotes == {i \in pos..Len(text) : text[i] = "\""}
        close == CHOOSE i \in quotes : \A j \in quotes : i <= j
    IN  IF quotes = {} THEN SyntaxError
        ELSE IF \E i \in pos..(close - 1) : text[i] \in {"\t", "\n", "\r"}
        THEN SyntaxError
        ELSE Parsed(JsString(SubSeq(text, pos, close - 1)), close + 1)

RECURSIVE dropTrailingZeros(_)
dropTrailingZeros(digits) ==
    IF digits # <<>> /\ digits[Len(digits)] = "0"
    THEN dropTrailingZeros(SubSeq(digits, 1, Len(digits) - 1))
    ELSE digits

RECURSIVE powerOfTen(_)
powerOfTen(n) == IF n = 0 THEN 1 ELSE 10 * powerOfTen(n - 1)

jsonLiteral(text, pos, word, value) ==
    IF pos + Len(word) - 1 <= Len(text)
       /\ SubSeq(text, pos, pos + Len(word) - 1) = word
    THEN Parsed(value, pos + Len(word))
    ELSE SyntaxError

\* the number whole.fraction, the fraction without its trailing zeros
decimal(whole, fraction) ==
    JsNumber(whole * powerOfTen(Len(fraction)) + parseInt(fraction),
             powerOfTen(Len(fraction)))

\* the digits after the point begin at start and are fractionLen many
jsonFraction(text, whole, start, fractionLen) ==
    IF fractionLen = 0 THEN SyntaxError
    ELSE Parsed(decimal(whole,
                        dropTrailingZeros(
                            SubSeq(text, start, start + fractionLen - 1))),
                start + fractionLen)

\* the digits before the point begin at first and are wholeLen many
jsonWhole(text, first, wholeLen) ==
    IF wholeLen = 0 \/ (wholeLen > 1 /\ text[first] = "0") THEN SyntaxError
    ELSE IF first + wholeLen <= Len(text) /\ text[first + wholeLen] = "."
    THEN jsonFraction(text,
                      parseInt(SubSeq(text, first, first + wholeLen - 1)),
                      first + wholeLen + 1,
                      runLength(text, first + wholeLen + 1, "\\d"))
    ELSE Parsed(JsNumber(parseInt(SubSeq(text, first, first + wholeLen - 1)),
                         1),
                first + wholeLen)

negated(parsed) ==
    IF parsed.ok
    THEN Parsed(JsNumber(0 - parsed.value.value[1], parsed.value.value[2]),
                parsed.next)
    ELSE SyntaxError

\* -? (0 | [1-9] \d*) (\. \d+)?
jsonNumber(text, pos) ==
    IF text[pos] = "-"
    THEN negated(jsonWhole(text, pos + 1, runLength(text, pos + 1, "\\d")))
    ELSE jsonWhole(text, pos, runLength(text, pos, "\\d"))

RECURSIVE jsonValue(_, _)
RECURSIVE jsonMembers(_, _, _)
RECURSIVE jsonElements(_, _, _)
\* after a member: a comma and the next member, or the closing brace
memberNext(text, end, members) ==
    IF end > Len(text) THEN SyntaxError
    ELSE IF text[end] = "," THEN jsonMembers(text, end + 1, members)
    ELSE IF text[end] = "}" THEN Parsed(JsObject(members), end + 1)
    ELSE SyntaxError

memberEnd(text, key, value, members) ==
    IF ~value.ok THEN SyntaxError
    ELSE memberNext(text, skipWhitespace(text, value.next),
                    Append(members, <<key.value.value, value.value>>))

memberValue(text, key, colon, members) ==
    IF colon <= Len(text) /\ text[colon] = ":"
    THEN memberEnd(text, key, jsonValue(text, colon + 1), members)
    ELSE SyntaxError

memberColon(text, key, members) ==
    IF key.ok
    THEN memberValue(text, key, skipWhitespace(text, key.next), members)
    ELSE SyntaxError

memberKey(text, p, members) ==
    IF p <= Len(text) /\ text[p] = "\""
    THEN memberColon(text, jsonString(text, p + 1), members)
    ELSE SyntaxError

\* "key": value, ... } with the key expected at pos
jsonMembers(text, pos, members) ==
    memberKey(text, skipWhitespace(text, pos), members)

\* after an element: a comma and the next element, or the closing bracket
elementNext(text, end, elements) ==
    IF end > Len(text) THEN SyntaxError
    ELSE IF text[end] = "," THEN jsonElements(text, end + 1, elements)
    ELSE IF text[end] = "]" THEN Parsed(JsArray(elements), end + 1)
    ELSE SyntaxError

elementEnd(text, value, elements) ==
    IF ~value.ok THEN SyntaxError
    ELSE elementNext(text, skipWhitespace(text, value.next),
                     Append(elements, value.value))

\* value, ... ] with the value expected at pos
jsonElements(text, pos, elements) ==
    elementEnd(text, jsonValue(text, pos), elements)

\* after the opening brace, white space skipped
jsonObject(text, q) ==
    IF q <= Len(text) /\ text[q] = "}" THEN Parsed(JsObject(<<>>), q + 1)
    ELSE jsonMembers(text, q, <<>>)

\* after the opening bracket, white space skipped
jsonArray(text, q) ==
    IF q <= Len(text) /\ text[q] = "]" THEN Parsed(JsArray(<<>>), q + 1)
    ELSE jsonElements(text, q, <<>>)

\* the value that begins at p
jsonValueAt(text, p) ==
    IF p > Len(text) THEN SyntaxError
    ELSE CASE text[p] = "{" -> jsonObject(text, skipWhitespace(text, p + 1))
           [] text[p] = "[" -> jsonArray(text, skipWhitespace(text, p + 1))
           [] text[p] = "\"" -> jsonString(text, p + 1)
           [] text[p] = "-" \/ IsDigit(text[p]) -> jsonNumber(text, p)
           [] text[p] = "t" ->
                jsonLiteral(text, p, <<"t", "r", "u", "e">>, JsBoolean(TRUE))
           [] text[p] = "f" ->
                jsonLiteral(text, p, <<"f", "a", "l", "s", "e">>,
                            JsBoolean(FALSE))
           [] text[p] = "n" ->
                jsonLiteral(text, p, <<"n", "u", "l", "l">>, JsNull)
           [] OTHER -> SyntaxError

jsonValue(text, pos) == jsonValueAt(text, skipWhitespace(text, pos))

\* nothing but white space may follow the value
complete(text, parsed) ==
    IF parsed.ok /\ skipWhitespace(text, parsed.next) = Len(text) + 1
    THEN parsed
    ELSE SyntaxError

JSONparse(text) == complete(text, jsonValue(text, 1))

\* value[key], for a value that is neither null nor undefined: the last
\* member of that name of an object, undefined for any other value
get(value, key) ==
    IF value.type = "object"
       /\ \E i \in 1..Len(value.value) : value.value[i][1] = key
    THEN LET last == CHOOSE i \in 1..Len(value.value) :
                        /\ value.value[i][1] = key
                        /\ \A j \in (i + 1)..Len(value.value) :
                               value.value[j][1] # key
         IN  value.value[last][2]
    ELSE JsUndefined

\* the body of the try block on what JSON.parse gave: reading a property
\* of null throws a TypeError, which the catch turns into null, as it does
\* the SyntaxError of JSON.parse
entryOfJson(parsed) ==
    IF ~parsed.ok \/ parsed.value.type = "null" THEN JsNull
    ELSE LogEntry(
            [timestamp |->
                 NewDate(get(parsed.value,
                             <<"t", "i", "m", "e", "s", "t", "a", "m", "p">>)),
             ip |-> get(parsed.value, <<"i", "p">>),
             method |-> get(parsed.value, <<"m", "e", "t", "h", "o", "d">>),
             path |-> get(parsed.value, <<"p", "a", "t", "h">>),
             status |-> get(parsed.value, <<"s", "t", "a", "t", "u", "s">>),
             bytes |-> get(parsed.value, <<"b", "y", "t", "e", "s">>),
             userAgent |->
                 get(parsed.value,
                     <<"u", "s", "e", "r", "_", "a", "g", "e", "n", "t">>),
             responseTime |->
                 get(parsed.value,
                     <<"r", "e", "s", "p", "o", "n", "s", "e", "_",
                       "t", "i", "m", "e">>)])

parseJsonLog(line) == entryOfJson(JSONparse(line))

\* entry || logParser.parseJsonLog(line)
orJsonLog(entry, line) ==
    IF entry # JsNull THEN entry ELSE parseJsonLog(line)

\* logParser.parseCommonLog(line) || logParser.parseJsonLog(line)
parse(line, random) == orJsonLog(parseCommonLog(line, random), line)

(***************************************************************************)
(* POST /api/process-logs.  The request is the form data: file is the text *)
(* of the uploaded file or None, websiteId a string or None.  Byte counts  *)
(* of the lines are whole multiples of half a GB, so that their sum is a   *)
(* whole number of traffic units.                                          *)
(***************************************************************************)
BytesPerGB == 1024 * 1024 * 1024

\* the traffic units of a byte count
trafficOf(bytes) == (bytes \div (BytesPerGB \div 2)) * (UnitsPerGB \div 2)

\* text.split('\n')
split(text) ==
    LET breaks == {i \in 1..Len(text) : text[i] = "\n"}
        count == Cardinality(breaks)
        \* the position of the k-th line break, 0 and Len + 1 at the ends
        break(k) ==
            IF k = 0 THEN 0
            ELSE IF k > count THEN Len(text) + 1
            ELSE CHOOSE i \in breaks :
                    Cardinality({j \in breaks : j < i}) = k - 1
    IN  [k \in 1..(count + 1) |->
            SubSeq(text, break(k - 1) + 1, break(k) - 1)]

\* line.trim()
trim(line) ==
    LET inked == {i \in 1..Len(line) :
                     line[i] \notin {" ", "\t", "\n", "\r", "\f"}}
    IN  IF inked = {} THEN <<>>
        ELSE SubSeq(line,
                    CHOOSE i \in inked : \A j \in inked : i <= j,
                    CHOOSE i \in inked : \A j \in inked : j <= i)

IsNonBlank(line) == trim(line) # <<>>

\* the argument entry.userAgent is for detect
userAgentOf(value) ==
    CASE value.type = "string" -> Str(value.value)
      [] value.type = "null" -> NullValue
      [] value.type = "undefined" -> UndefinedValue

rowOf(websiteId, entry, botInfo) ==
    [website_id |-> websiteId,
     timestamp |-> entry.timestamp,
     user_agent |-> entry.userAgent,
     bot_name |-> botInfo.botName,
     is_bot |-> botInfo.isBot,
     bot_category |-> botInfo.category,
     bytes_transferred |-> entry.bytes,
     response_time_ms |-> entry.responseTime,
     path |-> entry.path]

\* the row pushed for an entry
trafficLog(websiteId, entry) ==
    rowOf(websiteId, entry, detect(userAgentOf(entry.userAgent)).result)

\* if (entry) { entries.push(...) }: what a line adds to entries
pushed(websiteId, entry) ==
    IF entry # JsNull THEN <<trafficLog(websiteId, entry.value)>> ELSE <<>>

RECURSIVE entriesLoopAborting(_, _, _, _)
\* the loop left at the first line that does not parse
entriesLoopAborting(lines, i, websiteId, randoms) ==
    IF i > Len(lines) \/ parse(lines[i], randoms[i]) = JsNull THEN <<>>
    ELSE pushed(websiteId, parse(lines[i], randoms[i]))
         \o entriesLoopAborting(lines, i + 1, websiteId, randoms)

RECURSIVE entriesLoop(_, _, _, _)
\* for (const line of lines): randoms[i] is what Math.random() returns
\* while line i is parsed
entriesLoop(lines, i, websiteId, randoms) ==
    IF i > Len(lines) THEN <<>>
    ELSE pushed(websiteId, parse(lines[i], randoms[i]))
         \o entriesLoop(lines, i + 1, websiteId, randoms)

RECURSIVE sumBytes(_, _)
\* entries.reduce((sum, e) => sum + e.bytes_transferred, 0), from entry i
sumBytes(entries, i) ==
    IF i > Len(entries) THEN 0
    ELSE entries[i].bytes_transferred.value[1] + sumBytes(entries, i + 1)

IsBotEntry(e) == e.is_bot

IsHumanEntry(e) == ~e.is_bot

Response(status, body) == [status |-> status, body |-> body]

\* what a call to the store gave: error is Null or the message of the error
StoreCall(request, error) == [request |-> request, error |-> error]

\* the stats of the response, of all entries and of those of bots
statsOf(entries, botEntries) ==
    [totalEntries |-> Len(entries),
     botRequests |-> Len(botEntries),
     humanRequests |-> Len(SelectSeq(entries, IsHumanEntry)),
     totalBytes |-> sumBytes(entries, 1),
     potentialSavings |->
         calculateBandwidthCost(trafficOf(sumBytes(botEntries, 1)),
                                "generic").monthly]

\* the error of the insert never looked at
storedUnchecked(entries, error) ==
    [response |->
         Response(200,
             [success |-> TRUE,
              stats |-> statsOf(entries, SelectSeq(entries, IsBotEntry)),
              message |-> <<"Processed ", ToString(Len(entries)),
                            " log entries">>]),
     store |-> <<StoreCall([from |-> "traffic_logs",
                            insert |-> entries], error)>>,
     console |-> <<>>]

\* the try block from the insert on, and the catch block
stored(entries, error) ==
    IF error # Null
    THEN [response |-> Response(500, [error |-> "Failed to process logs"]),
          store |-> <<StoreCall([from |-> "traffic_logs",
                                 insert |-> entries], error)>>,
          console |-> << <<"Error processing logs:", error>> >>]
    ELSE [response |->
              Response(200,
                  [success |-> TRUE,
                   stats |-> statsOf(entries, SelectSeq(entries, IsBotEntry)),
                   message |-> <<"Processed ", ToString(Len(entries)),
                                 " log entries">>]),
          store |-> <<StoreCall([from |-> "traffic_logs",
                                 insert |-> entries], error)>>,
          console |-> <<>>]

\* the handler on a request, the random numbers of its parses and the
\* error the insert ends with (Null: none): its response, its calls to the
\* store and its console output
POST(request, randoms, error) ==
    IF request.file = None \/ request.websiteId \in {None, Some("")}
    THEN [response |-> Response(400,
                          [error |-> "Missing file or websiteId"]),
          store |-> <<>>, console |-> <<>>]
    ELSE stored(entriesLoop(SelectSeq(split(request.file[1]), IsNonBlank),
                            1, request.websiteId[1], randoms),
                error)

(***************************************************************************)
(* GET /api/analyze.  The request is the query string: websiteId and       *)
(* timeRange, a string or None.  A row of traffic_logs holds is_bot,       *)
(* bot_category and bot_name (a string or Null) and bytes_transferred (a   *)
(* byte count or None).  since is kept as the number of hours before now.  *)
(***************************************************************************)
hoursMap == ("1h" :> 1) @@ ("24h" :> 24) @@ ("7d" :> 168) @@ ("30d" :> 720)

\* searchParams.get('timeRange') || '24h'
timeRangeOf(request) ==
    IF request.timeRange \in {None, Some("")} THEN "24h"
    ELSE request.timeRange[1]

\* hoursMap[timeRange] || 24
hoursOf(timeRange) ==
    IF timeRange \in DOMAIN hoursMap THEN hoursMap[timeRange] ELSE 24

IsBotLog(l) == l.is_bot

IsHumanLog(l) == ~l.is_bot

\* l.bytes_transferred || 0
bytesOf(l) == OrElse(l.bytes_transferred, 0)

RECURSIVE sumBandwidth(_, _)
\* logs.reduce((sum, l) => sum + (l.bytes_transferred || 0), 0), from log i
sumBandwidth(logs, i) ==
    IF i > Len(logs) THEN 0
    ELSE bytesOf(logs[i]) + sumBandwidth(logs, i + 1)

\* bots.add(name): a Set keeps the first insertion
addBot(bots, name) ==
    IF \E i \in 1..Len(bots) : bots[i] = name THEN bots
    ELSE Append(bots, name)

RECURSIVE breakdownLoop(_, _, _)
\* the reduce that groups the bot logs by category, from log i
breakdownLoop(logs, i, acc) ==
    IF i > Len(logs) THEN acc
    ELSE LET log == logs[i]
             category == IF log.bot_category \in {Null, ""} THEN "unknown"
                         ELSE log.bot_category
             started == IF category \in DOMAIN acc THEN acc
                        ELSE (category :> [requests |-> 0, bandwidth |-> 0,
                                           bots |-> <<>>]) @@ acc
             counted ==
                 [started EXCEPT
                     ![category].requests = @ + 1,
                     ![category].bandwidth = @ + bytesOf(log),
                     ![category].bots =
                         IF log.bot_name \in {Null, ""} THEN @
                         ELSE addBot(@, log.bot_name)]
         IN  breakdownLoop(logs, i + 1, counted)

\* ((part / whole) * 100).toFixed(1): the nearest tenth, halves upwards
toFixed1(part, whole) ==
    LET tenths == (part * 2000 + whole) \div (2 * whole)
    IN  <<ToString(tenths \div 10), ".", ToString(tenths % 10)>>

percentage(part, whole) ==
    IF whole > 0 THEN toFixed1(part, whole) ELSE <<"0">>

\* the handler on a request and what the query ends with, an error (Null:
\* none) and the logs: its response and its calls to the store
GET(request, error, logs) ==
    IF request.websiteId \in {None, Some("")}
    THEN [response |-> Response(400, [error |-> "Missing websiteId"]),
          store |-> <<>>]
    ELSE LET hours == hoursOf(timeRangeOf(request))
             query == StoreCall([from |-> "traffic_logs", select |-> "*",
                                 website_id |-> request.websiteId[1],
                                 since |-> hours], error)
             totalRequests == Len(logs)
             botLogs == SelectSeq(logs, IsBotLog)
             botRequests == Len(botLogs)
             humanRequests == totalRequests - botRequests
             botBytes == sumBandwidth(botLogs, 1)
             humanBytes == sumBandwidth(SelectSeq(logs, IsHumanLog), 1)
             botBreakdown ==
                 breakdownLoop(botLogs, 1, [key \in {} |-> 0])
             \* botGB * savingsPerGB * 30, savingsPerGB = 0.15
             potentialSavings == trafficOf(botBytes) * 150 * 30
         IN  IF error # Null
             THEN [response |-> Response(500, [error |-> error]),
                   store |-> <<query>>]
             ELSE [response |->
                       Response(200,
                           [metrics |->
                               [totalRequests |-> totalRequests,
                                botRequests |-> botRequests,
                                humanRequests |-> humanRequests,
                                aiPercentage |->
                                    percentage(botRequests, totalRequests),
                                humanPercentage |->
                                    percentage(humanRequests, totalRequests),
                                botBandwidth |-> botBytes,
                                humanBandwidth |-> humanBytes,
                                potentialSavings |->
                                    [total |-> potentialSavings,
                                     monthly |-> potentialSavings,
                                     yearly |-> potentialSavings * 12],
                                botBreakdown |-> botBreakdown],
                            logs |-> SubSeq(logs, 1, MinOf(100, Len(logs)))]),
                   store |-> <<query>>]

(***************************************************************************)
(* Dashboard (the page component).  metrics is None before the first       *)
(* setMetrics.  fetches holds one record per call of fetchMetrics, in the   *)
(* order of the calls: the request is sent, then served (data is the body  *)
(* the route handler answered with), then arrived (the two awaits are over *)
(* and the setters have run; order counts the arrivals).  upload is the     *)
(* position of handleFileUpload.  table is traffic_logs as the query sees   *)
(* it, newest row first; events are the INSERT notifications on their way   *)
(* to the subscription.                                                     *)
(***************************************************************************)
\* useState('demo-website-id')
demoWebsiteId == "demo-website-id"

\* the page before its effect has run
Unmounted ==
    /\ mounted = FALSE
    /\ metrics = None
    /\ realtimeLogs = <<>>
    /\ fetches = <<>>
    /\ upload = "idle"
    /\ table = <<>>
    /\ events = <<>>

\* fetch(`/api/analyze?websiteId=${websiteId}&timeRange=24h`) is sent
fetchMetrics(sent) == Append(sent, [state |-> "sent", data |-> None, order |-> 0])

\* the body the route handler answers the request of fetchMetrics with
analyze(rows) ==
    GET([websiteId |-> Some(demoWebsiteId), timeRange |-> Some("24h")],
        Null, rows).response.body

\* [payload.new, ...prev].slice(0, 20)
feedWith(new, prev) ==
    SubSeq(<<new>> \o prev, 1, MinOf(20, Len(prev) + 1))

\* the number of responses that have arrived
arrivals(sent) == Cardinality({i \in 1..Len(sent) : sent[i].state = "arrived"})

(***************************************************************************)
(* User agents submitted to detect: absent, empty, a registry name, two    *)
(* registered crawlers' tokens one after the other, or up to MaxFragments  *)
(* fragments one after the other.                                          *)
(***************************************************************************)
MaxFragments == 2

\* the registry names (the Map keys) as strings, in declaration order
CanonicalToken ==
    << <<"G", "P", "T", "B", "o", "t">>,
      <<"C", "h", "a", "t", "G", "P", "T", "-", "U", "s", "e", "r">>,
      <<"C", "l", "a", "u", "d", "e", "-", "W", "e", "b">>,
      <<"a", "n", "t", "h", "r", "o", "p", "i", "c", "-", "a", "i">>,
      <<"C", "o", "h", "e", "r", "e", "-", "a", "i">>,
      <<"P", "e", "r", "p", "l", "e", "x", "i", "t", "y", "B", "o", "t">>,
      <<"Y", "o", "u", "B", "o", "t">>,
      <<"G", "o", "o", "g", "l", "e", "b", "o", "t">>,
      <<"b", "i", "n", "g", "b", "o", "t">>,
      <<"B", "a", "i", "d", "u", "s", "p", "i", "d", "e", "r">>,
      <<"Y", "a", "n", "d", "e", "x", "B", "o", "t">>,
      <<"D", "u", "c", "k", "D", "u", "c", "k", "B", "o", "t">>,
      <<"C", "C", "B", "o", "t">>,
      <<"B", "y", "t", "e", "s", "p", "i", "d", "e", "r">>,
      <<"P", "e", "t", "a", "l", "B", "o", "t">>,
      <<"M", "J", "1", "2", "b", "o", "t">>,
      <<"D", "a", "t", "a", "F", "o", "r", "S", "e", "o", "B", "o", "t">>,
      <<"S", "e", "m", "r", "u", "s", "h", "B", "o", "t">>,
      <<"A", "h", "r", "e", "f", "s", "B", "o", "t">>,
      <<"S", "c", "r", "e", "a", "m", "i", "n", "g", " ", "F", "r", "o",
        "g">>,
      <<"f", "a", "c", "e", "b", "o", "o", "k", "e", "x", "t", "e", "r",
        "n", "a", "l", "h", "i", "t">>,
      <<"T", "w", "i", "t", "t", "e", "r", "b", "o", "t">>,
      <<"L", "i", "n", "k", "e", "d", "I", "n", "B", "o", "t">>,
      <<"W", "h", "a", "t", "s", "A", "p", "p">>,
      <<"S", "l", "a", "c", "k", "b", "o", "t">>,
      <<"U", "p", "t", "i", "m", "e", "R", "o", "b", "o", "t">>,
      <<"P", "i", "n", "g", "d", "o", "m">> >>

\* for each signature, in declaration order, a token its crawler sends
KnownAgent ==
    << <<"G", "P", "T", "B", "o", "t", "/", "1", ".", "0">>,
      <<"C", "h", "a", "t", "G", "P", "T", "-", "U", "s", "e", "r">>,
      <<"C", "l", "a", "u", "d", "e", "-", "W", "e", "b">>,
      <<"a", "n", "t", "h", "r", "o", "p", "i", "c", "-", "a", "i">>,
      <<"C", "o", "h", "e", "r", "e", "-", "a", "i">>,
      <<"P", "e", "r", "p", "l", "e", "x", "i", "t", "y", "B", "o", "t">>,
      <<"Y", "o", "u", "B", "o", "t">>,
      <<"G", "o", "o", "g", "l", "e", "b", "o", "t">>,
      <<"b", "i", "n", "g", "b", "o", "t">>,
      <<"B", "a", "i", "d", "u", "s", "p", "i", "d", "e", "r">>,
      <<"Y", "a", "n", "d", "e", "x", "B", "o", "t">>,
      <<"D", "u", "c", "k", "D", "u", "c", "k", "B", "o", "t">>,
      <<"C", "C", "B", "o", "t">>,
      <<"B", "y", "t", "e", "s", "p", "i", "d", "e", "r">>,
      <<"P", "e", "t", "a", "l", "B", "o", "t">>,
      <<"M", "J", "1", "2", "b", "o", "t">>,
      <<"D", "a", "t", "a", "F", "o", "r", "S", "e", "o", "B", "o", "t">>,
      <<"S", "e", "m", "r", "u", "s", "h", "B", "o", "t">>,
      <<"A", "h", "r", "e", "f", "s", "B", "o", "t">>,
      <<"S", "c", "r", "e", "a", "m", "i", "n", "g", " ", "F", "r", "o",
        "g", " ", "S", "E", "O", " ", "S", "p", "i", "d", "e", "r">>,
      <<"f", "a", "c", "e", "b", "o", "o", "k", "e", "x", "t", "e", "r",
        "n", "a", "l", "h", "i", "t">>,
      <<"T", "w", "i", "t", "t", "e", "r", "b", "o", "t">>,
      <<"L", "i", "n", "k", "e", "d", "I", "n", "B", "o", "t">>,
      <<"W", "h", "a", "t", "s", "A", "p", "p">>,
      <<"S", "l", "a", "c", "k", "b", "o", "t">>,
      <<"U", "p", "t", "i", "m", "e", "R", "o", "b", "o", "t">>,
      <<"P", "i", "n", "g", "d", "o", "m">> >>

Fragments ==
    { <<"G", "P", "T", "B", "o", "t">>,
      <<"G", "P", "T", "B", "o", "t", "/">>,
      <<"1", ".", "0">>,
      <<"G", "o", "o", "g", "l", "e", "b", "o", "t">>,
      <<"g", "o", "o", "g", "l", "e", "B", "O", "T">>,
      <<"C", "C", "B", "o", "t">>,
      <<"B", "y", "t", "e", "s", "p", "i", "d", "e", "r">>,
      <<"S", "c", "r", "e", "a", "m", "i", "n", "g", " ", "F", "r", "o",
        "g">>,
      <<" ", "S", "E", "O", " ", "S", "p", "i", "d", "e", "r">>,
      <<"M", "o", "z", "i", "l", "l", "a", "/", "5", ".", "0", " ">>,
      <<"r", "o", "b", "o", "t", "i", "c", "s">>,
      <<"h", "e", "a", "d", "l", "e", "s", "s">>,
      <<"c", "u", "r", "l">>,
      <<"c", "r", "a", "w", "l", "e", "r">>,
      <<"P", "l", "a", "y", "w", "r", "i", "g", "h", "t">>,
      <<" ">> }

RECURSIVE Concat(_)
Concat(fs) == IF fs = <<>> THEN <<>> ELSE Head(fs) \o Concat(Tail(fs))

UserAgents ==
    {NullValue, UndefinedValue}
    \cup {Str(CanonicalToken[i]) : i \in 1..Len(CanonicalToken)}
    \cup {Str(KnownAgent[i] \o KnownAgent[j]) :
            i \in 1..Len(KnownAgent), j \in 1..Len(KnownAgent)}
    \cup UNION { {Str(Concat(fs)) : fs \in [1..n -> Fragments]} :
                 n \in 0..MaxFragments }

(***************************************************************************)
(* Arguments of the cost calculator.  Amounts stay within the 32-bit       *)
(* integers of the model checker (yearly = total * 365).                   *)
(***************************************************************************)
MaxTiers == 2

MaxTraffic == 3

RECURSIVE SeqsUpTo(_, _)
\* the sequences over S of length at most n
SeqsUpTo(S, n) ==
    IF n = 0 THEN {<<>>}
    ELSE LET shorter == SeqsUpTo(S, n - 1)
         IN  shorter \cup {Append(q, x) : q \in shorter, x \in S}

ProviderKeys == DOMAIN providers \cup {"linode", Undefined}

BuiltInTables ==
    {providers[k].tieredPricing[1] :
        k \in {k \in DOMAIN providers : providers[k].tieredPricing # None}}

\* tiers for tables written by a caller, well formed or not
TierSamples ==
    {Tier(b, r) : b \in {1, 2}, r \in {0, 50, 100}}
    \cup {LastTier(r) : r \in {50, 100}}

ByteSamples ==
    {0, 1, GB(1), GB(1) + 1, GB(5), GB(10), GB(10) + 10, GB(40), GB(41),
     GB(100), GB(101), GB(150), GB(151), GB(300)}

LargeByteSamples == {GB(1000), GB(1000) + 1, GB(1300)}

TieredCostCalls ==
    {[op |-> "tieredCost", args |-> <<gb, tiers>>] :
        gb \in {k * (UnitsPerGB \div 2) : k \in 0..6},
        tiers \in SeqsUpTo(TierSamples, MaxTiers)}
    \cup {[op |-> "tieredCost", args |-> <<gb, tiers>>] :
            gb \in ByteSamples, tiers \in BuiltInTables}

BandwidthCostCalls ==
    {[op |-> "bandwidthCost", args |-> <<bytes, provider>>] :
        bytes \in ByteSamples, provider \in ProviderKeys}
    \cup {[op |-> "bandwidthCost", args |-> <<bytes, provider>>] :
            bytes \in LargeByteSamples,
            provider \in ProviderKeys \ {"vercel", "netlify"}}

CategoryTraffic ==
    { [category |-> "ai_scraper", bytesTransferred |-> 100, requestCount |-> 40],
      [category |-> "ai_scraper", bytesTransferred |-> 300, requestCount |-> 90],
      [category |-> "search_engine", bytesTransferred |-> 600, requestCount |-> 7],
      [category |-> "social_media", bytesTransferred |-> 200, requestCount |-> 2],
      [category |-> "monitoring", bytesTransferred |-> 90, requestCount |-> 60],
      [category |-> "ai_search", bytesTransferred |-> 50, requestCount |-> 5],
      [category |-> "ai_training", bytesTransferred |-> 0, requestCount |-> 0] }

SavingsCalls ==
    {[op |-> "savingsByCategory", args |-> <<botTraffic, provider>>] :
        botTraffic \in SeqsUpTo(CategoryTraffic, MaxTraffic),
        provider \in {"generic", "aws"}}

\* with the generic provider a unit of traffic costs 10 cents a month: the
\* thresholds of 10, 50 and 20 dollars are met at 100, 500 and 200 units
BotTraffic ==
    { [botName |-> "CCBot", category |-> "ai_scraper",
       bytesTransferred |-> 100, requestCount |-> 10],
      [botName |-> "Bytespider", category |-> "ai_scraper",
       bytesTransferred |-> 200, requestCount |-> 20],
      [botName |-> "GPTBot", category |-> "ai_training",
       bytesTransferred |-> 500, requestCount |-> 50],
      [botName |-> "Claude-Web", category |-> "ai_training",
       bytesTransferred |-> 600, requestCount |-> 60],
      [botName |-> "Googlebot", category |-> "search_engine",
       bytesTransferred |-> 900, requestCount |-> 90],
      [botName |-> "bingbot", category |-> "search_engine",
       bytesTransferred |-> 0, requestCount |-> 0],
      [botName |-> "SemrushBot", category |-> "seo_tool",
       bytesTransferred |-> 400, requestCount |-> 40],
      [botName |-> "AhrefsBot", category |-> "seo_tool",
       bytesTransferred |-> 200, requestCount |-> 20],
      [botName |-> "Twitterbot", category |-> "social_media",
       bytesTransferred |-> 900, requestCount |-> 90] }

RecommendCalls ==
    {[op |-> "recommend", args |-> <<botTraffic, provider>>] :
        botTraffic \in SeqsUpTo(BotTraffic, MaxTraffic),
        provider \in {"generic", "azure"}}

RoiCalls ==
    {[op |-> "roi", args |-> <<bytes, provider, cost>>] :
        bytes \in {0, 1, GB(1), GB(1) + 1, GB(10)},
        provider \in {"generic", "vercel", "aws", "gcp"},
        cost \in {None, Some(0), Some(1), Some(Dollars(1)), Some(Dollars(100))}}

MaxResults == 3

\* BotDetectionResult values: what detect returns for five user agents, and
\* three results the type admits that detect does not produce
DetectionResults ==
    {detect(ua).result :
        ua \in {Str(<<>>),
                Str(<<"G", "P", "T", "B", "o", "t", "/", "1", ".", "0">>),
                Str(<<"G", "o", "o", "g", "l", "e", "b", "o", "t">>),
                Str(<<"c", "u", "r", "l">>),
                Str(<<"s", "p", "i", "d", "e", "r">>)}}
    \cup {[isBot |-> TRUE, botName |-> "Pinger", category |-> Null,
           severity |-> "high", description |-> Undefined,
           recommendation |-> Undefined, confidence |-> 95],
          [isBot |-> TRUE, botName |-> Null, category |-> "",
           severity |-> Null, description |-> Undefined,
           recommendation |-> "block", confidence |-> 95],
          [isBot |-> FALSE, botName |-> Null, category |-> "scraper",
           severity |-> "low", description |-> Undefined,
           recommendation |-> "block", confidence |-> 100]}

StatisticsCalls ==
    {[op |-> "aggregate", args |-> <<results>>] :
        results \in SeqsUpTo(DetectionResults, MaxResults)}

(***************************************************************************)
(* Log lines given to the parser: common-log lines, lines of neither       *)
(* format, and JSON lines.  Math.random() returns a number of [0, 1), in   *)
(* thousandths here.                                                       *)
(***************************************************************************)
GptBotLine ==
    <<"1", ".", "2", ".", "3", ".", "4", " ", "-", " ", "-", " ", "[", "1",
      "0", "/", "O", "c", "t", "/", "2", "0", "2", "4", ":", "1", "3", ":",
      "5", "5", ":", "3", "6", " ", "-", "0", "7", "0", "0", "]", " ", "\"",
      "G", "E", "T", " ", "/", "a", "p", "i", "/", "d", "a", "t", "a", " ",
      "H", "T", "T", "P", "/", "1", ".", "1", "\"", " ", "2", "0", "0", " ",
      "2", "3", "2", "6", " ", "\"", "-", "\"", " ", "\"", "G", "P", "T",
      "B", "o", "t", "/", "1", ".", "0", "\"">>

BrowserLine ==
    <<"5", ".", "6", ".", "7", ".", "8", " ", "-", " ", "b", "o", "b", " ",
      "[", "1", "0", "/", "O", "c", "t", "/", "2", "0", "2", "4", ":", "1",
      "3", ":", "5", "5", ":", "3", "7", " ", "-", "0", "7", "0", "0", "]",
      " ", "\"", "P", "O", "S", "T", " ", "/", "l", "o", "g", "i", "n", " ",
      "H", "T", "T", "P", "/", "1", ".", "1", "\"", " ", "4", "0", "4", " ",
      "0", " ", "\"", "h", "t", "t", "p", ":", "/", "/", "a", ".", "b", "/",
      "\"", " ", "\"", "M", "o", "z", "i", "l", "l", "a", "/", "5", ".", "0",
      " ", "(", "X", "1", "1", ")", "\"">>

\* 9.9.9.9 - - [10/Oct/2024:13:55:38 -0700] "GET / HTTP/1.1" 200 15 "-" ""
NoAgentLine ==
    <<"9", ".", "9", ".", "9", ".", "9", " ", "-", " ", "-", " ", "[", "1",
      "0", "/", "O", "c", "t", "/", "2", "0", "2", "4", ":", "1", "3", ":",
      "5", "5", ":", "3", "8", " ", "-", "0", "7", "0", "0", "]", " ", "\"",
      "G", "E", "T", " ", "/", " ", "H", "T", "T", "P", "/", "1", ".", "1",
      "\"", " ", "2", "0", "0", " ", "1", "5", " ", "\"", "-", "\"", " ",
      "\"", "\"">>

BadStatusLine ==
    <<"9", ".", "9", ".", "9", ".", "9", " ", "-", " ", "-", " ", "[", "1",
      "0", "/", "O", "c", "t", "/", "2", "0", "2", "4", ":", "1", "3", ":",
      "5", "5", ":", "3", "8", " ", "-", "0", "7", "0", "0", "]", " ", "\"",
      "G", "E", "T", " ", "/", " ", "H", "T", "T", "P", "/", "1", ".", "1",
      "\"", " ", "a", "b", "c", " ", "1", "5", " ", "\"", "-", "\"", " ",
      "\"", "c", "u", "r", "l", "/", "8", ".", "0", "\"">>

NoBytesLine ==
    <<"9", ".", "9", ".", "9", ".", "9", " ", "-", " ", "-", " ", "[", "1",
      "0", "/", "O", "c", "t", "/", "2", "0", "2", "4", ":", "1", "3", ":",
      "5", "5", ":", "3", "8", " ", "-", "0", "7", "0", "0", "]", " ", "\"",
      "G", "E", "T", " ", "/", " ", "H", "T", "T", "P", "/", "1", ".", "1",
      "\"", " ", "3", "0", "4", " ", "-", " ", "\"", "-", "\"", " ", "\"",
      "c", "u", "r", "l", "/", "8", ".", "0", "\"">>

CarriageReturnLine ==
    <<"9", ".", "9", ".", "9", ".", "9", " ", "-", " ", "-", " ", "[", "1",
      "0", "/", "O", "c", "t", "/", "2", "0", "2", "4", ":", "1", "3", ":",
      "5", "5", ":", "3", "8", " ", "-", "0", "7", "0", "0", "]", " ", "\"",
      "G", "E", "T", " ", "/", " ", "H", "T", "T", "P", "/", "1", ".", "1",
      "\"", " ", "2", "0", "0", " ", "1", "5", " ", "\"", "-", "\"", " ",
      "\"", "c", "u", "r", "l", "/", "8", ".", "0", "\"", "\r">>

\* hello world
TextLine ==
    <<"h", "e", "l", "l", "o", " ", "w", "o", "r", "l", "d">>

\* {"status":200
TruncatedJsonLine ==
    <<"{", "\"", "s", "t", "a", "t", "u", "s", "\"", ":", "2", "0", "0">>

JsonLine ==
    <<"{", "\"", "t", "i", "m", "e", "s", "t", "a", "m", "p", "\"", ":",
      "\"", "2", "0", "2", "4", "-", "1", "0", "-", "1", "0", "T", "1", "3",
      ":", "5", "5", ":", "3", "6", "Z", "\"", ",", "\"", "i", "p", "\"",
      ":", "\"", "1", ".", "2", ".", "3", ".", "4", "\"", ",", "\"", "m",
      "e", "t", "h", "o", "d", "\"", ":", "\"", "G", "E", "T", "\"", ",",
      "\"", "p", "a", "t", "h", "\"", ":", "\"", "/", "a", "\"", ",", "\"",
      "s", "t", "a", "t", "u", "s", "\"", ":", "2", "0", "0", ",", "\"", "b",
      "y", "t", "e", "s", "\"", ":", "1", "0", "0", ",", "\"", "u", "s", "e",
      "r", "_", "a", "g", "e", "n", "t", "\"", ":", "\"", "c", "u", "r", "l",
      "/", "8", ".", "0", "\"", ",", "\"", "r", "e", "s", "p", "o", "n", "s",
      "e", "_", "t", "i", "m", "e", "\"", ":", "1", "2", "}">>

\* { "status": 200, "bytes": 10, "user_agent": null }
SpacedJsonLine ==
    <<"{", " ", "\"", "s", "t", "a", "t", "u", "s", "\"", ":", " ", "2", "0",
      "0", ",", " ", "\"", "b", "y", "t", "e", "s", "\"", ":", " ", "1", "0",
      ",", " ", "\"", "u", "s", "e", "r", "_", "a", "g", "e", "n", "t", "\"",
      ":", " ", "n", "u", "l", "l", " ", "}">>

\* {"ip":"1.2.3.4","status":"abc","bytes":1.5,"user_agent":"Googlebot/2.1"}
JsonTextStatusLine ==
    <<"{", "\"", "i", "p", "\"", ":", "\"", "1", ".", "2", ".", "3", ".",
      "4", "\"", ",", "\"", "s", "t", "a", "t", "u", "s", "\"", ":", "\"",
      "a", "b", "c", "\"", ",", "\"", "b", "y", "t", "e", "s", "\"", ":",
      "1", ".", "5", ",", "\"", "u", "s", "e", "r", "_", "a", "g", "e", "n",
      "t", "\"", ":", "\"", "G", "o", "o", "g", "l", "e", "b", "o", "t", "/",
      "2", ".", "1", "\"", "}">>

\* {}
EmptyObjectLine ==
    <<"{", "}">>

\* 5
JsonNumberLine ==
    <<"5">>

\* null
JsonNullLine ==
    <<"n", "u", "l", "l">>

\* [200, 5]
JsonArrayLine ==
    <<"[", "2", "0", "0", ",", " ", "5", "]">>

\* "GET"
JsonStringLine ==
    <<"\"", "G", "E", "T", "\"">>

DownloadLine ==
    <<"1", ".", "2", ".", "3", ".", "4", " ", "-", " ", "-", " ", "[", "1",
      "0", "/", "O", "c", "t", "/", "2", "0", "2", "4", ":", "1", "3", ":",
      "5", "5", ":", "3", "6", " ", "-", "0", "7", "0", "0", "]", " ", "\"",
      "G", "E", "T", " ", "/", "m", "o", "d", "e", "l", ".", "b", "i", "n",
      " ", "H", "T", "T", "P", "/", "1", ".", "1", "\"", " ", "2", "0", "0",
      " ", "5", "3", "6", "8", "7", "0", "9", "1", "2", " ", "\"", "-", "\"",
      " ", "\"", "G", "P", "T", "B", "o", "t", "/", "1", ".", "0", "\"">>

JsonDownloadLine ==
    <<"{", "\"", "t", "i", "m", "e", "s", "t", "a", "m", "p", "\"", ":",
      "\"", "2", "0", "2", "4", "-", "1", "0", "-", "1", "0", "T", "1", "3",
      ":", "5", "5", ":", "3", "6", "Z", "\"", ",", "\"", "p", "a", "t", "h",
      "\"", ":", "\"", "/", "m", "o", "d", "e", "l", ".", "b", "i", "n",
      "\"", ",", "\"", "s", "t", "a", "t", "u", "s", "\"", ":", "2", "0",
      "0", ",", "\"", "b", "y", "t", "e", "s", "\"", ":", "5", "3", "6", "8",
      "7", "0", "9", "1", "2", ",", "\"", "u", "s", "e", "r", "_", "a", "g",
      "e", "n", "t", "\"", ":", "\"", "c", "u", "r", "l", "/", "8", ".", "0",
      "\"", ",", "\"", "r", "e", "s", "p", "o", "n", "s", "e", "_", "t", "i",
      "m", "e", "\"", ":", "1", "2", "}">>

\* a line of white space
BlankLine == <<" ", "\t">>

CommonLogLines == {GptBotLine, BrowserLine, NoAgentLine, DownloadLine}

MalformedLines ==
    {BadStatusLine,
     NoBytesLine,
     CarriageReturnLine,
     TextLine,
     TruncatedJsonLine}

JsonLines ==
    {JsonLine,
     JsonDownloadLine,
     SpacedJsonLine,
     JsonTextStatusLine,
     EmptyObjectLine,
     JsonNumberLine,
     JsonNullLine,
     JsonArrayLine,
     JsonStringLine}

LogLines == CommonLogLines \cup MalformedLines \cup JsonLines

Randoms == {0, 999}

ParseCommonLogCalls ==
    {[op |-> "parseCommonLog", args |-> <<line>>] : line \in LogLines}

ParseJsonLogCalls ==
    {[op |-> "parseJsonLog", args |-> <<line>>] : line \in LogLines}

ParseCalls == {[op |-> "parse", args |-> <<line>>] : line \in LogLines}

(***************************************************************************)
(* Arguments of generateRobotsTxt: lists of at most MaxBots names, a name  *)
(* possibly twice or one of the two search engines; mappings of at most    *)
(* MaxBots distinct names to a delay; two moments of the clock.            *)
(***************************************************************************)
MaxBots == 2

BlockedNames == {"GPTBot", "CCBot", "Googlebot"}

RateLimitedNames == {"GPTBot", "ClaudeBot", "bingbot"}

Delays == {1, 10}

RateLimitedMaps ==
    {entries \in SeqsUpTo(RateLimitedNames \X Delays, MaxBots) :
        \A i, j \in 1..Len(entries) :
            entries[i][1] = entries[j][1] => i = j}

Moments == {"2024-10-10T13:55:36.000Z", "2024-10-10T13:55:36.001Z"}

RobotsTxtCalls ==
    {[op |-> "robotsTxt", args |-> <<blockedBots, rateLimitedBots>>] :
        blockedBots \in SeqsUpTo(BlockedNames, MaxBots),
        rateLimitedBots \in RateLimitedMaps}

(***************************************************************************)
(* Uploads: files of at most MaxLines lines, each ended by a line break;   *)
(* the errors the store answers with.                                      *)
(***************************************************************************)
MaxLines == 2

FileLines ==
    {DownloadLine, BrowserLine, JsonDownloadLine, BadStatusLine, BlankLine,
     CarriageReturnLine}

RECURSIVE FileText(_)
FileText(lines) ==
    IF lines = <<>> THEN <<>>
    ELSE Head(lines) \o <<"\n">> \o FileText(Tail(lines))

Requests ==
    {[file |-> Some(FileText(lines)), websiteId |-> Some("site-1")] :
        lines \in SeqsUpTo(FileLines, MaxLines)}
    \cup {[file |-> file, websiteId |-> websiteId] :
            file \in {None, Some(FileText(<<DownloadLine>>))},
            websiteId \in {None, Some(""), Some("site-1")}}

StoreErrors == {"permission denied for table traffic_logs"}

PostCalls == {[op |-> "POST", args |-> <<request>>] : request \in Requests}

(***************************************************************************)
(* Queries: the query strings, and the rows the store answers with, at     *)
(* most MaxLogs of them.                                                   *)
(***************************************************************************)
MaxLogs == 2

Queries ==
    {[websiteId |-> websiteId, timeRange |-> timeRange] :
        websiteId \in {None, Some(""), Some("site-1")},
        timeRange \in {None, Some(""), Some("1h"), Some("24h"), Some("7d"),
                       Some("30d"), Some("1y")}}

StoredLogs ==
    {[is_bot |-> TRUE, bot_category |-> "ai_training",
      bot_name |-> "GPTBot", bytes_transferred |-> Some(BytesPerGB \div 2)],
     [is_bot |-> TRUE, bot_category |-> "ai_training",
      bot_name |-> "ClaudeBot", bytes_transferred |-> Some(0)],
     [is_bot |-> TRUE, bot_category |-> Null,
      bot_name |-> Null, bytes_transferred |-> None],
     [is_bot |-> FALSE, bot_category |-> Null,
      bot_name |-> Null, bytes_transferred |-> Some(BytesPerGB \div 2)]}

GetCalls == {[op |-> "GET", args |-> <<request>>] : request \in Queries}

(***************************************************************************)
(* The dashboard's surroundings: at most MaxInserts rows are inserted in   *)
(* traffic_logs while the page is open, by the page's upload or by anyone  *)
(* else.                                                                   *)
(***************************************************************************)
MaxInserts == 2

InsertedLogs ==
    {[is_bot |-> TRUE, bot_category |-> "ai_training",
      bot_name |-> "GPTBot", bytes_transferred |-> Some(BytesPerGB \div 2)],
     [is_bot |-> FALSE, bot_category |-> Null,
      bot_name |-> Null, bytes_transferred |-> Some(0)]}

(***************************************************************************)
(* Behaviour: a call is pending with its arguments (Init draws them), the  *)
(* operation runs to completion in one step and leaves its return value.   *)
(***************************************************************************)
DetectCalls == {[op |-> "detect", args |-> <<ua>>] : ua \in UserAgents}

Calls ==
    DetectCalls \cup TieredCostCalls \cup BandwidthCostCalls
    \cup SavingsCalls \cup RecommendCalls \cup RoiCalls
    \cup StatisticsCalls
    \cup ParseCommonLogCalls \cup ParseJsonLogCalls \cup ParseCalls
    \cup RobotsTxtCalls \cup PostCalls \cup GetCalls

Init ==
    /\ pc = "call"
    /\ \E c \in Calls : op = c.op /\ args = c.args
    /\ ret = Undefined
    /\ tests = 0
    /\ store = <<>>
    /\ console = <<>>
    /\ Unmounted

Detect ==
    /\ pc = "call"
    /\ op = "detect"
    /\ LET run == detect(args[1])
       IN  /\ ret' = run.result
           /\ tests' = run.tests
    /\ pc' = "return"
    /\ UNCHANGED <<op, args, store, console, dashboardVars>>

TieredCost ==
    /\ pc = "call"
    /\ op = "tieredCost"
    /\ ret' = calculateTieredCost(args[1], args[2])
    /\ pc' = "return"
    /\ UNCHANGED <<op, args, tests, store, console, dashboardVars>>

BandwidthCost ==
    /\ pc = "call"
    /\ op = "bandwidthCost"
    /\ ret' = calculateBandwidthCost(args[1], args[2])
    /\ pc' = "return"
    /\ UNCHANGED <<op, args, tests, store, console, dashboardVars>>

SavingsByCategory ==
    /\ pc = "call"
    /\ op = "savingsByCategory"
    /\ ret' = calculateSavingsByCategory(args[1], args[2])
    /\ pc' = "return"
    /\ UNCHANGED <<op, args, tests, store, console, dashboardVars>>

Recommend ==
    /\ pc = "call"
    /\ op = "recommend"
    /\ ret' = generateRecommendations(args[1], args[2])
    /\ pc' = "return"
    /\ UNCHANGED <<op, args, tests, store, console, dashboardVars>>

Roi ==
    /\ pc = "call"
    /\ op = "roi"
    /\ ret' = calculateROI(args[1], args[2], args[3])
    /\ pc' = "return"
    /\ UNCHANGED <<op, args, tests, store, console, dashboardVars>>

Statistics ==
    /\ pc = "call"
    /\ op = "aggregate"
    /\ ret' = getStatistics(args[1])
    /\ pc' = "return"
    /\ UNCHANGED <<op, args, tests, store, console, dashboardVars>>

ParseCommonLog ==
    /\ pc = "call"
    /\ op = "parseCommonLog"
    /\ \E random \in Randoms : ret' = parseCommonLog(args[1], random)
    /\ pc' = "return"
    /\ UNCHANGED <<op, args, tests, store, console, dashboardVars>>

ParseJsonLog ==
    /\ pc = "call"
    /\ op = "parseJsonLog"
    /\ ret' = parseJsonLog(args[1])
    /\ pc' = "return"
    /\ UNCHANGED <<op, args, tests, store, console, dashboardVars>>

Parse ==
    /\ pc = "call"
    /\ op = "parse"
    /\ \E random \in Randoms : ret' = parse(args[1], random)
    /\ pc' = "return"
    /\ UNCHANGED <<op, args, tests, store, console, dashboardVars>>

RobotsTxt ==
    /\ pc = "call"
    /\ op = "robotsTxt"
    /\ \E now \in Moments :
           ret' = generateRobotsTxt(args[1], args[2], now)
    /\ pc' = "return"
    /\ UNCHANGED <<op, args, tests, store, console, dashboardVars>>

\* what a run of the handler leaves behind
Ends(run) ==
    /\ ret' = run.response
    /\ store' = run.store
    /\ console' = run.console

Post ==
    /\ pc = "call"
    /\ op = "POST"
    /\ \E randoms \in [1..MaxLines -> Randoms],
          error \in {Null} \cup StoreErrors :
           Ends(POST(args[1], randoms, error))
    /\ pc' = "return"
    /\ UNCHANGED <<op, args, tests, dashboardVars>>

Get ==
    /\ pc = "call"
    /\ op = "GET"
    /\ \E error \in {Null} \cup StoreErrors,
          logs \in SeqsUpTo(StoredLogs, MaxLogs) :
           LET run == GET(args[1], error, logs)
           IN  /\ ret' = run.response
               /\ store' = run.store
    /\ pc' = "return"
    /\ UNCHANGED <<op, args, tests, console, dashboardVars>>

Next ==
    \/ Detect
    \/ TieredCost
    \/ BandwidthCost
    \/ SavingsByCategory
    \/ Recommend
    \/ Roi
    \/ Statistics
    \/ ParseCommonLog
    \/ ParseJsonLog
    \/ Parse
    \/ RobotsTxt
    \/ Post
    \/ Get

Spec == Init /\ [][Next]_vars

(***************************************************************************)
(* The dashboard: the effect, the subscription's callback, fetchMetrics    *)
(* and handleFileUpload as the steps between their awaits, and the server  *)
(* and the store as the page sees them.                                    *)
(***************************************************************************)
DashboardInit ==
    /\ pc = "page"
    /\ op = "Dashboard"
    /\ args = <<>>
    /\ ret = Undefined
    /\ tests = 0
    /\ store = <<>>
    /\ console = <<>>
    /\ Unmounted

\* useEffect: fetchMetrics(), then the subscription
Mount ==
    /\ ~mounted
    /\ mounted' = TRUE
    /\ fetches' = fetchMetrics(fetches)
    /\ UNCHANGED <<callVars, metrics, realtimeLogs, upload, table, events>>

\* a row is inserted in traffic_logs by someone else; the subscription, if
\* there is one, is notified
Insert ==
    /\ Len(table) < MaxInserts
    /\ \E row \in InsertedLogs :
           /\ table' = <<row>> \o table
           /\ events' = IF mounted THEN Append(events, row) ELSE events
    /\ UNCHANGED <<callVars, mounted, metrics, realtimeLogs, fetches, upload>>

\* the callback of the subscription on the next notification
Notify ==
    /\ events # <<>>
    /\ realtimeLogs' = feedWith(Head(events), realtimeLogs)
    /\ fetches' = fetchMetrics(fetches)
    /\ events' = Tail(events)
    /\ UNCHANGED <<callVars, mounted, metrics, upload, table>>

\* the route handler answers request i from the table as it is now
Analyze ==
    /\ \E i \in 1..Len(fetches) :
           /\ fetches[i].state = "sent"
           /\ fetches' = [fetches EXCEPT ![i].state = "served",
                                         ![i].data = Some(analyze(table))]
    /\ UNCHANGED <<callVars, mounted, metrics, realtimeLogs, upload, table,
                   events>>

\* the rest of fetchMetrics once response i is there: the two setters
Arrive ==
    /\ \E i \in 1..Len(fetches) :
           /\ fetches[i].state = "served"
           /\ metrics' = Some(fetches[i].data[1].metrics)
           /\ realtimeLogs' = fetches[i].data[1].logs
           /\ fetches' = [fetches EXCEPT ![i].state = "arrived",
                                         ![i].order = arrivals(fetches) + 1]
    /\ UNCHANGED <<callVars, mounted, upload, table, events>>

\* handleFileUpload up to its first await; the input is rendered only once
\* metrics is set
Upload ==
    /\ mounted
    /\ metrics # None
    /\ upload = "idle"
    /\ upload' = "sent"
    /\ UNCHANGED <<callVars, mounted, metrics, realtimeLogs, fetches, table,
                   events>>

\* /api/process-logs answers: the entry of the file is inserted and the
\* result is a success, or nothing is inserted and the result is an error
ProcessLogs ==
    /\ upload = "sent"
    /\ \/ /\ Len(table) < MaxInserts
          /\ \E row \in InsertedLogs :
                 /\ table' = <<row>> \o table
                 /\ events' = Append(events, row)
          /\ upload' = "success"
       \/ /\ upload' = "error"
          /\ UNCHANGED <<table, events>>
    /\ UNCHANGED <<callVars, mounted, metrics, realtimeLogs, fetches>>

\* the rest of handleFileUpload: if (result.success) fetchMetrics()
Uploaded ==
    /\ upload \in {"success", "error"}
    /\ fetches' = IF upload = "success" THEN fetchMetrics(fetches)
                  ELSE fetches
    /\ upload' = "done"
    /\ UNCHANGED <<callVars, mounted, metrics, realtimeLogs, table, events>>

DashboardNext ==
    \/ Mount
    \/ Insert
    \/ Notify
    \/ Analyze
    \/ Arrive
    \/ Upload
    \/ ProcessLogs
    \/ Uploaded

DashboardSpec == DashboardInit /\ [][DashboardNext]_vars

(***************************************************************************)
(* Properties of detect                                                    *)
(***************************************************************************)
Returned(o) == pc = "return" /\ op = o

\* the signatures, by position, whose pattern matches the string
Matching(chars) ==
    {i \in 1..Len(signatures) : Test(signatures[i].pattern, chars)}

Min(S) == CHOOSE m \in S : \A n \in S : m <= n

\* the string contains the word, letter case aside
Contains(chars, word) ==
    LET s == ToLower(chars)
    IN  \E i \in 1..(Len(s) - Len(word) + 1) :
            SubSeq(s, i, i + Len(word) - 1) = word

\* C1: whenever the user agent matches one or more registered signatures,
\* detect returns the name, category, severity and recommendation of the
\* matching signature declared earliest, and never the generic Unknown Bot.
C1_FirstMatchWins ==
    (Returned("detect") /\ ~Falsy(args[1]) /\ Matching(args[1].chars) # {}) =>
        LET first == signatures[Min(Matching(args[1].chars))]
        IN  /\ ret.isBot
            /\ ret.botName = first.name
            /\ ret.category = first.category
            /\ ret.severity = first.severity
            /\ ret.recommendation = first.recommendation
            /\ ret.botName # "Unknown Bot"

\* a user agent matching two signatures, with a later declared one written
\* first in the string
C1_Witness ==
    /\ Returned("detect")
    /\ args[1] = Str(KnownAgent[9] \o KnownAgent[8])
    /\ Matching(args[1].chars) = {8, 9}
    /\ ret.botName = "Googlebot"

\* C2: for every signature, detect applied to the user agent that is
\* exactly the signature's registry name returns isBot = true, that name
\* and confidence 0.95.
C2_CanonicalTokenDetected ==
    \A i \in 1..Len(signatures) :
        (Returned("detect") /\ args[1] = Str(CanonicalToken[i])) =>
            /\ ret.isBot
            /\ ret.botName = signatures[i].name
            /\ ret.confidence = 95

\* C3: in every result of detect, isBot = true implies a non-null botName,
\* isBot = false implies null botName, category and severity, and the
\* confidence is one of 1.0, 0.95, 0.9, 0.8, 0.7.
C3_ResultWellFormed ==
    Returned("detect") =>
        /\ ret.isBot => ret.botName # Null
        /\ ~ret.isBot =>
               ret.botName = Null /\ ret.category = Null /\ ret.severity = Null
        /\ ret.confidence \in {100, 95, 90, 80, 70}
        /\ ret.confidence >= 0 /\ ret.confidence <= 100

\* a generic match on a headless-automation marker alone
C3_Witness ==
    /\ Returned("detect")
    /\ ret.isBot
    /\ ret.botName = "Unknown Bot"
    /\ ret.confidence = 90

\* C4: on an empty or absent user agent detect returns isBot = false with
\* confidence 1.0 as a normal value, having tested no pattern at all.
C4_EmptyUserAgent ==
    (Returned("detect") /\ args[1] \in {NullValue, UndefinedValue, Str(<<>>)}) =>
        /\ ret = NotABot
        /\ ret.isBot = FALSE
        /\ ret.confidence = 100
        /\ tests = 0

\* the empty string has been classified
C4_Witness ==
    /\ Returned("detect")
    /\ args[1] = Str(<<>>)
    /\ ~ret.isBot

BotTerms ==
    { <<"b", "o", "t">>, <<"c", "r", "a", "w", "l", "e", "r">>,
      <<"s", "p", "i", "d", "e", "r">>, <<"s", "c", "r", "a", "p", "e", "r">>,
      <<"c", "r", "a", "w", "l">> }

HttpClientTerms ==
    { <<"p", "y", "t", "h", "o", "n", "-", "r", "e", "q", "u", "e", "s", "t", "s">>,
      <<"u", "r", "l", "l", "i", "b">>, <<"w", "g", "e", "t">>,
      <<"c", "u", "r", "l">>, <<"a", "x", "i", "o", "s">> }

HeadlessTerms ==
    { <<"h", "e", "a", "d", "l", "e", "s", "s">>,
      <<"p", "h", "a", "n", "t", "o", "m">>,
      <<"p", "u", "p", "p", "e", "t", "e", "e", "r">>,
      <<"p", "l", "a", "y", "w", "r", "i", "g", "h", "t">> }

ContainsAny(chars, words) == \E w \in words : Contains(chars, w)

\* the confidence of the generic cascade, 0 standing for no generic match
GenericConfidence(chars) ==
    IF ContainsAny(chars, BotTerms) THEN 80
    ELSE IF ContainsAny(chars, HttpClientTerms) THEN 70
    ELSE IF ContainsAny(chars, HeadlessTerms) THEN 90
    ELSE 0

\* C5: when no registered signature matches, the generic patterns apply in
\* the order bot terms (0.8), HTTP-client names (0.7), headless markers
\* (0.9) and the first match wins with Unknown Bot / scraper / medium /
\* rate_limit, even when a later pattern of higher confidence matches too;
\* with no generic match the result is isBot = false, confidence 1.0.
C5_GenericCascade ==
    (Returned("detect") /\ ~Falsy(args[1]) /\ Matching(args[1].chars) = {}) =>
        LET c == GenericConfidence(args[1].chars)
        IN  IF c # 0
            THEN /\ ret.isBot
                 /\ ret.botName = "Unknown Bot"
                 /\ ret.category = "scraper"
                 /\ ret.severity = "medium"
                 /\ ret.recommendation = "rate_limit"
                 /\ ret.confidence = c
            ELSE ret.isBot = FALSE /\ ret.confidence = 100

\* a bot term together with a headless marker: 0.8 is reported, not 0.9
C5_Witness ==
    /\ Returned("detect")
    /\ ~Falsy(args[1])
    /\ Matching(args[1].chars) = {}
    /\ ContainsAny(args[1].chars, BotTerms)
    /\ ContainsAny(args[1].chars, HeadlessTerms)
    /\ ret.confidence = 80

(***************************************************************************)
(* Properties of the recommendation engine                                 *)
(***************************************************************************)
\* the rule table of the recommendation engine, read on one record:
\* <<action, savings in tenths of the money unit, confidence>>, or <<>>
\* when the record meets no rule
RuleTable(category, monthlyCost) ==
    CASE category = "ai_scraper" /\ monthlyCost > Dollars(10) ->
            <<"block", 10 * monthlyCost, 95>>
      [] category = "ai_training" /\ monthlyCost > Dollars(50) ->
            <<"rate_limit", 7 * monthlyCost, 85>>
      [] category = "search_engine" ->
            <<"allow", 0, 100>>
      [] category = "seo_tool" /\ monthlyCost > Dollars(20) ->
            <<"rate_limit", 5 * monthlyCost, 75>>
      [] OTHER -> <<>>

MonthlyCost(bot, provider) ==
    calculateBandwidthCost(bot.bytesTransferred, provider).monthly

\* <<target, action, savings, confidence>> expected of an input record
Expected(bot, provider) ==
    LET rule == RuleTable(bot.category, MonthlyCost(bot, provider))
    IN  IF rule = <<>> THEN <<>> ELSE <<bot.botName>> \o rule

Decision(rec) ==
    <<rec.target, rec.action, rec.savingsPerMonth, rec.confidence>>

\* C6: recommend decides each record by the rule table on strict
\* thresholds of monthlyCost = bandwidthCost(bytes, provider).monthly; the
\* output holds exactly one entry per input record that meets a rule and
\* nothing for a record that meets none (at its threshold, or of another
\* category); search_engine always gives allow with savings 0.
C6_RuleTable ==
    Returned("recommend") =>
        LET botTraffic == args[1]
            provider == args[2]
            met == {b \in 1..Len(botTraffic) :
                        Expected(botTraffic[b], provider) # <<>>}
        IN  /\ Len(ret) = Cardinality(met)
            /\ \A d \in {Decision(ret[k]) : k \in 1..Len(ret)}
                     \cup {Expected(botTraffic[b], provider) : b \in met} :
                   Cardinality({k \in 1..Len(ret) : Decision(ret[k]) = d})
                   = Cardinality({b \in met :
                                    Expected(botTraffic[b], provider) = d})
            /\ \A b \in 1..Len(botTraffic) :
                   botTraffic[b].category = "search_engine" =>
                       \E k \in 1..Len(ret) :
                           /\ ret[k].target = botTraffic[b].botName
                           /\ ret[k].action = "allow"
                           /\ ret[k].savingsPerMonth = 0
                           /\ ret[k].confidence = 100

\* a scraper exactly at 10 dollars a month yields nothing, next to one
\* above the threshold that is blocked
C6_Witness ==
    /\ Returned("recommend")
    /\ args[2] = "generic"
    /\ Len(args[1]) = 3
    /\ \E b \in 1..3 :
           /\ args[1][b].category = "ai_scraper"
           /\ MonthlyCost(args[1][b], args[2]) = Dollars(10)
    /\ Len(ret) = 2
    /\ \E k \in 1..2 : ret[k].action = "block"

\* the recommendations before the sort, in input order
Unsorted(botTraffic, provider) ==
    recommendLoop(botTraffic, 1, withDefault(provider), <<>>)

\* the entries of a list that save exactly v a month, in list order
Saving(recs, v) == SelectSeq(recs, LAMBDA r : r.savingsPerMonth = v)

\* C7: the list returned by recommend is in descending order of
\* savingsPerMonth, and the entries of equal savingsPerMonth are in the
\* order of their input records.
C7_SortedStable ==
    Returned("recommend") =>
        /\ \A i, j \in 1..Len(ret) :
               i < j => ret[i].savingsPerMonth >= ret[j].savingsPerMonth
        /\ \A v \in {ret[k].savingsPerMonth : k \in 1..Len(ret)} :
               Saving(ret, v) = Saving(Unsorted(args[1], args[2]), v)

\* a larger saving declared last and moved to the front, behind it two
\* different bots of one saving, in input order
C7_Witness ==
    /\ Returned("recommend")
    /\ Len(ret) = 3
    /\ ret # Unsorted(args[1], args[2])
    /\ ret[2].savingsPerMonth = ret[3].savingsPerMonth
    /\ ret[2].target # ret[3].target
    /\ ret[1].savingsPerMonth > ret[2].savingsPerMonth

(***************************************************************************)
(* Properties of the cost calculator                                       *)
(***************************************************************************)
\* C8: tieredCost never decreases when its input GB grows, whatever the
\* tier table, and on a table of one flat-rate (unbounded) tier it is
\* exactly gb * rate.
C8_TieredMonotoneAndFlat ==
    Returned("tieredCost") =>
        LET gb == args[1]
            tiers == args[2]
        IN  /\ \A less \in 0..gb : calculateTieredCost(less, tiers) <= ret
            /\ (Len(tiers) = 1 /\ tiers[1].infinite) =>
                   ret = gb * tiers[1].costPerGB

\* traffic past the first bound of a two-tier table has been priced
C8_Witness ==
    /\ Returned("tieredCost")
    /\ Len(args[2]) = 2
    /\ ~args[2][1].infinite
    /\ args[2][1].costPerGB > args[2][2].costPerGB
    /\ args[2][2].costPerGB > 0
    /\ args[1] > args[2][1].upToGB
    /\ ret > args[2][1].upToGB * args[2][1].costPerGB

\* the flat case of C8 has been priced
C8_WitnessFlat ==
    /\ Returned("tieredCost")
    /\ Len(args[2]) = 1
    /\ args[2][1].infinite
    /\ ret > 0

\* the provider's freeGBIncluded, 0 when it has none
FreeGB(provider) ==
    LET config == providerConfig(withDefault(provider))
    IN  IF config.freeGBIncluded = None THEN 0 ELSE config.freeGBIncluded[1]

\* C9: for every provider, flat or tiered, traffic within the provider's
\* freeGBIncluded costs nothing: total, monthly and yearly are 0.
C9_FreeAllowance ==
    (Returned("bandwidthCost") /\ args[1] <= FreeGB(args[2])) =>
        /\ ret.total = 0
        /\ ret.monthly = 0
        /\ ret.yearly = 0

\* traffic strictly inside the free allowance of a flat provider
C9_Witness ==
    /\ Returned("bandwidthCost")
    /\ args[1] > 0
    /\ args[1] < FreeGB(args[2])
    /\ providerConfig(withDefault(args[2])).tieredPricing = None
    /\ ret.total = 0

\* C10: every breakdown of bandwidthCost has monthly = total * 30,
\* yearly = total * 365 and bandwidth.cost = total, and the aggregate of
\* savingsByCategory has the same monthly and yearly relations.
C10_MonthlyYearly ==
    /\ Returned("bandwidthCost") =>
           /\ ret.monthly = ret.total * 30
           /\ ret.yearly = ret.total * 365
           /\ ret.bandwidth.cost = ret.total
    /\ Returned("savingsByCategory") =>
           /\ ret.monthly = ret.total * 30
           /\ ret.yearly = ret.total * 365

\* an aggregate over several records with a positive total
C10_Witness ==
    /\ Returned("savingsByCategory")
    /\ Len(args[1]) > 1
    /\ ret.total > 0
    /\ ret.yearly = ret.total * 365


\* C11: bandwidthCost with a provider key that is not in the registry
\* returns exactly the breakdown of the generic provider (flat 0.10 per GB,
\* no free tier) on the same byte count, as a normal value.
C11_UnknownProviderIsGeneric ==
    (Returned("bandwidthCost") /\ args[2] \notin DOMAIN providers) =>
        /\ ret = calculateBandwidthCost(args[1], "generic")
        /\ ret.bandwidth.gb = args[1]
        /\ ret.total = args[1] * 100
        /\ ret.monthly = args[1] * 100 * 30
        /\ ret.yearly = args[1] * 100 * 365

\* an unregistered key priced on traffic that a free tier or a tier table
\* would price differently
C11_Witness ==
    /\ Returned("bandwidthCost")
    /\ args[2] = "linode"
    /\ args[1] = GB(10) + 10
    /\ ret.total > 0
    /\ ret # calculateBandwidthCost(args[1], "aws")


\* the multiplier, in tenths, the documentation gives a category: the four
\* documented weights, the table's own entry for its other categories,
\* 1.0 for a category the table does not have
DocumentedMultiplier(category) ==
    CASE category = "ai_scraper" -> 18
      [] category = "ai_training" -> 15
      [] category = "search_engine" -> 5
      [] category = "social_media" -> 3
      [] category \in DOMAIN botCostMultipliers -> botCostMultipliers[category]
      [] OTHER -> 10

RECURSIVE SumOfCosts(_, _)
\* the sum of bandwidthCost(bytes * m, provider).total over the records
SumOfCosts(botTraffic, provider) ==
    IF botTraffic = <<>> THEN 0
    ELSE LET bot == Head(botTraffic)
             scaled == (bot.bytesTransferred * DocumentedMultiplier(bot.category)) \div 10
         IN  calculateBandwidthCost(scaled, provider).total
             + SumOfCosts(Tail(botTraffic), provider)

\* C12: savingsByCategory costs each record as bandwidthCost(bytes * m,
\* provider), m being the multiplier of the record's category (ai_scraper
\* 1.8, ai_training 1.5, search_engine 0.5, social_media 0.3) and 1.0 for
\* a category without entry in the table; total is the sum of these costs.
C12_CategoryMultipliers ==
    Returned("savingsByCategory") =>
        /\ ret.total = SumOfCosts(args[1], args[2])
        /\ \A b \in 1..Len(args[1]) :
               LET bot == args[1][b]
               IN  /\ bot.category \notin DOMAIN botCostMultipliers =>
                          multiplierOf(bot.category) = 10
                   /\ multiplierOf(bot.category) = DocumentedMultiplier(bot.category)

\* a weighted category next to one without entry in the table
C12_Witness ==
    /\ Returned("savingsByCategory")
    /\ args[2] = "generic"
    /\ Len(args[1]) = 2
    /\ args[1][1].category = "ai_scraper"
    /\ args[1][2].category = "monitoring"
    /\ ret.total = ((args[1][1].bytesTransferred * 18) \div 10) * 100
                   + args[1][2].bytesTransferred * 100


\* C13: roi returns breakEvenDays = ceil(implementationCost / dailyCost)
\* when implementationCost > 0 and 0 otherwise, and roi = (yearlySavings -
\* implementationCost) / implementationCost * 100 when implementationCost
\* > 0; roi is the infinity sentinel exactly when implementationCost is 0,
\* and breakEvenDays is a finite number for every input, a daily cost of 0
\* included.
C13_Roi ==
    Returned("roi") =>
        LET cost == costOrZero(args[3])
            daily == calculateBandwidthCost(args[1], args[2])
        IN  /\ ~ret.breakEvenDays.infinite
            /\ ret.breakEvenDays.den = 1
            /\ (cost > 0 /\ daily.total > 0) =>
                   /\ (ret.breakEvenDays.num - 1) * daily.total < cost
                   /\ cost <= ret.breakEvenDays.num * daily.total
            /\ cost <= 0 => ret.breakEvenDays.num = 0
            /\ cost > 0 =>
                   /\ ~ret.roi.infinite
                   /\ ret.roi = Percent(daily.yearly - cost, cost)
            /\ ret.roi.infinite <=> cost = 0
            /\ ret.monthlySavings = daily.monthly
            /\ ret.yearlySavings = daily.yearly

\* everything C13 says but the finiteness of breakEvenDays
C13_RoiButFinite ==
    Returned("roi") =>
        LET cost == costOrZero(args[3])
            daily == calculateBandwidthCost(args[1], args[2])
        IN  /\ (cost > 0 /\ daily.total > 0) =>
                   /\ ~ret.breakEvenDays.infinite
                   /\ (ret.breakEvenDays.num - 1) * daily.total < cost
                   /\ cost <= ret.breakEvenDays.num * daily.total
            /\ (cost > 0 /\ daily.total = 0) => ret.breakEvenDays.infinite
            /\ cost <= 0 => ret.breakEvenDays = Finite(0)
            /\ cost > 0 =>
                   /\ ~ret.roi.infinite
                   /\ ret.roi = Percent(daily.yearly - cost, cost)
            /\ ret.roi.infinite <=> cost = 0


\* the results of a batch that are bots
BotsOf(results) == {i \in 1..Len(results) : results[i].isBot}

\* the tally of the values of one field over the bot results that have one
TallyOf(results, field) ==
    LET counted == {i \in BotsOf(results) :
                        results[i][field] \notin {Null, Undefined, ""}}
    IN  [key \in {results[i][field] : i \in counted} |->
            Cardinality({i \in counted : results[i][field] = key})]

RECURSIVE SumOfTally(_)
SumOfTally(tally) ==
    IF DOMAIN tally = {} THEN 0
    ELSE LET key == CHOOSE k \in DOMAIN tally : TRUE
         IN  tally[key]
             + SumOfTally([k \in DOMAIN tally \ {key} |-> tally[k]])

\* what detect can return
DetectRange ==
    {NotABot} \cup {KnownBot(signatures[i]) : i \in 1..Len(signatures)}
    \cup {UnknownBot(genericPatterns[i].confidence) :
            i \in 1..Len(genericPatterns)}

\* C14: aggregate returns total = number of results and bots + humans =
\* total, bots counting exactly the results whose isBot is true; byCategory,
\* bySeverity and recommendations count only the bot results that have a
\* value for the field, and hold a key only if the value occurs in the input
\* (no key starts at zero).  For results that detect produced, each of the
\* three tallies sums to bots.
C14_Statistics ==
    Returned("aggregate") =>
        LET results == args[1]
        IN  /\ ret.total = Len(results)
            /\ ret.bots + ret.humans = ret.total
            /\ ret.bots = Cardinality(BotsOf(results))
            /\ ret.byCategory = TallyOf(results, "category")
            /\ ret.bySeverity = TallyOf(results, "severity")
            /\ ret.recommendations = TallyOf(results, "recommendation")
            /\ \A tally \in {ret.byCategory, ret.bySeverity,
                             ret.recommendations} :
                   \A key \in DOMAIN tally : tally[key] > 0
            /\ (\A i \in 1..Len(results) : results[i] \in DetectRange) =>
                   /\ SumOfTally(ret.byCategory) = ret.bots
                   /\ SumOfTally(ret.bySeverity) = ret.bots
                   /\ SumOfTally(ret.recommendations) = ret.bots

C14_Witness ==
    /\ Returned("aggregate")
    /\ Len(args[1]) = 3
    /\ \A i \in 1..3 : args[1][i] \in DetectRange
    /\ ret.bots = 2
    /\ ret.humans = 1
    /\ DOMAIN ret.byCategory = {"ai_training", "scraper"}
    /\ SumOfTally(ret.bySeverity) = 2

\* a batch with a bot that has no category: the tallies need not sum to bots
C14_WitnessPartial ==
    /\ Returned("aggregate")
    /\ ret.bots = 2
    /\ SumOfTally(ret.byCategory) = 1
    /\ SumOfTally(ret.bySeverity) = 2


(***************************************************************************)
(* Properties of the log parser                                            *)
(***************************************************************************)
\* the line has the common web-server log format
IsCommonLog(line) == match(line, commonLogPattern).ok

\* the line is one JSON object
IsJsonObject(line) ==
    JSONparse(line).ok /\ JSONparse(line).value.type = "object"

IsInteger(value) == value.type = "number" /\ value.value[2] = 1

\* C15: parse never throws: it returns null for every line that matches
\* neither the common-log format nor the JSON-object format, and it returns
\* null, not a partially filled record, whenever status or bytes does not
\* parse as an integer, in the JSON format as in the common-log format.
C15_ParseRejects ==
    Returned("parse") =>
        /\ ret.type \in {"null", "LogEntry"}
        /\ (~IsCommonLog(args[1]) /\ ~IsJsonObject(args[1])) => ret = JsNull
        /\ ret # JsNull =>
               /\ IsInteger(ret.value.status)
               /\ IsInteger(ret.value.bytes)

\* what holds of C15: null for a line that is neither a common-log line
\* nor JSON (or is the JSON null); an entry with integer status and bytes
\* for a common-log line
C15_ParseRejectsNonJson ==
    Returned("parse") =>
        /\ ret.type \in {"null", "LogEntry"}
        /\ (~IsCommonLog(args[1])
            /\ (~JSONparse(args[1]).ok \/ JSONparse(args[1]).value = JsNull))
               => ret = JsNull
        /\ IsCommonLog(args[1]) =>
               /\ ret # JsNull
               /\ IsInteger(ret.value.status)
               /\ IsInteger(ret.value.bytes)

\* C16: parsing is deterministic: parsing the same common-log line twice
\* yields two identical entries, the responseTime of a common-log entry
\* being a fixed default (0 or null), not a made-up value.
C16_ParseDeterministic ==
    (Returned("parse") /\ IsCommonLog(args[1])) =>
        /\ \A random \in Randoms : parse(args[1], random) = ret
        /\ ret.value.responseTime \in {JsNumber(0, 1), JsNull}

\* what holds of C16: the other fields do not depend on the random number
C16_OnlyResponseTimeVaries ==
    (Returned("parse") /\ IsCommonLog(args[1])) =>
        \A random \in Randoms :
            [parse(args[1], random).value EXCEPT
                !.responseTime = ret.value.responseTime] = ret.value


(***************************************************************************)
(* Properties of the robots policy                                         *)
(***************************************************************************)
IsComment(line) ==
    line # <<>> /\ line[1] \in {"# AI Crawler Monitor - Generated robots.txt",
                                "# Generated: ", "# Search Engines (Allowed)",
                                "# Blocked Bots", "# Rate Limited Bots",
                                "# Default"}

RECURSIVE Blocks(_, _, _)
\* the rule blocks of lines[i..]: the runs of lines between empty lines,
\* comments left out; block is the run being gathered
Blocks(lines, i, block) ==
    IF i > Len(lines) THEN IF block = <<>> THEN <<>> ELSE <<block>>
    ELSE IF lines[i] = <<>>
    THEN (IF block = <<>> THEN <<>> ELSE <<block>>)
         \o Blocks(lines, i + 1, <<>>)
    ELSE IF IsComment(lines[i]) THEN Blocks(lines, i + 1, block)
    ELSE Blocks(lines, i + 1, Append(block, lines[i]))

AllowBlock(name) == << <<"User-agent: ", name>>, <<"Allow: /">> >>

DisallowBlock(name) == << <<"User-agent: ", name>>, <<"Disallow: /">> >>

CrawlDelayBlock(entry) ==
    << <<"User-agent: ", entry[1]>>,
       <<"Crawl-delay: ", ToString(entry[2])>>, <<"Allow: /">> >>

DefaultBlock ==
    << <<"User-agent: ", "*">>, <<"Allow: /">>, <<"Sitemap: /sitemap.xml">> >>

HasLine(lines, line) == \E i \in 1..Len(lines) : lines[i] = line

\* C18: the rendered policy has a fixed section order: the allow rules for
\* Googlebot and bingbot first, then one 'Disallow: /' block per blocked
\* bot in the order of the list, then one Crawl-delay block per
\* rate-limited bot in the order of the mapping, then the default
\* 'User-agent: *' allow-all with the sitemap pointer last; the blocked and
\* the rate-limited section are left out when their input is empty.
C18_SectionOrder ==
    Returned("robotsTxt") =>
        LET blockedBots == args[1]
            rateLimitedBots == args[2]
        IN  /\ Blocks(ret, 1, <<>>) =
                   <<AllowBlock("Googlebot"), AllowBlock("bingbot")>>
                   \o [i \in 1..Len(blockedBots) |->
                          DisallowBlock(blockedBots[i])]
                   \o [i \in 1..Len(rateLimitedBots) |->
                          CrawlDelayBlock(rateLimitedBots[i])]
                   \o <<DefaultBlock>>
            /\ ret[Len(ret)] = <<"Sitemap: /sitemap.xml">>
            /\ HasLine(ret, <<"# Blocked Bots">>) <=> blockedBots # <<>>
            /\ HasLine(ret, <<"# Rate Limited Bots">>)
                   <=> rateLimitedBots # <<>>

C18_Witness ==
    /\ Returned("robotsTxt")
    /\ args[1] = <<"CCBot", "GPTBot">>
    /\ args[2] = << <<"ClaudeBot", 10>>, <<"bingbot", 1>> >>
    /\ Len(Blocks(ret, 1, <<>>)) = 7
    /\ Blocks(ret, 1, <<>>)[3] = DisallowBlock("CCBot")
    /\ Blocks(ret, 1, <<>>)[5] = CrawlDelayBlock(<<"ClaudeBot", 10>>)

\* both inputs empty: the two search engines and the default only
C18_WitnessEmpty ==
    /\ Returned("robotsTxt")
    /\ args[1] = <<>>
    /\ args[2] = <<>>
    /\ Len(Blocks(ret, 1, <<>>)) = 3
    /\ ~HasLine(ret, <<"# Blocked Bots">>)

\* C19: the render is deterministic given its input: two calls with the
\* same blockedBots list and the same rate-limited mapping, made at any two
\* moments, return the same document.
C19_RenderDeterministic ==
    Returned("robotsTxt") =>
        \A now \in Moments : generateRobotsTxt(args[1], args[2], now) = ret

\* what holds of C19: two renders differ in the '# Generated:' line only
C19_OnlyDateVaries ==
    Returned("robotsTxt") =>
        \A now \in Moments :
            LET other == generateRobotsTxt(args[1], args[2], now)
            IN  /\ Len(other) = Len(ret)
                /\ \A i \in 1..Len(ret) :
                       other[i] # ret[i] => ret[i][1] = "# Generated: "


(***************************************************************************)
(* Properties of the request handlers                                      *)
(***************************************************************************)
\* the non-blank lines of the uploaded file, in order
LinesOf(request) == SelectSeq(split(request.file[1]), IsNonBlank)

\* the entries a line can parse to: the common-log entry if the line has
\* that format, whatever its responseTime, else what parseJsonLog gives
EntriesOf(line) ==
    IF IsCommonLog(line)
    THEN {parseCommonLog(line, random) : random \in Randoms}
    ELSE {parseJsonLog(line)} \ {JsNull}

\* the k-th smallest element of a set of numbers
Nth(S, k) == CHOOSE i \in S : Cardinality({j \in S : j < i}) = k - 1

\* the row is the entry classified by detect on the entry's own user agent
IsRowOf(row, entry, websiteId) ==
    LET botInfo == detect(userAgentOf(entry.userAgent)).result
    IN  /\ row.website_id = websiteId
        /\ row.user_agent = entry.userAgent
        /\ row.timestamp = entry.timestamp
        /\ row.path = entry.path
        /\ row.bytes_transferred = entry.bytes
        /\ row.response_time_ms = entry.responseTime
        /\ row.is_bot = botInfo.isBot
        /\ row.bot_name = botInfo.botName
        /\ row.bot_category = botInfo.category

\* C17: batch ingestion processes the lines independently and in order:
\* each non-blank line is tried as common-log first and as JSON only if
\* that fails, a line that parses yields exactly one entry classified by
\* detect on its own userAgent, a line that does not parse is skipped
\* without aborting the batch, and the entries keep the relative order of
\* their lines, so there are never more entries than lines.
C17_BatchInOrder ==
    (Returned("POST") /\ ret.status # 400) =>
        LET lines == LinesOf(args[1])
            rows == store[1].request.insert
            parsed == {i \in 1..Len(lines) : EntriesOf(lines[i]) # {}}
        IN  /\ Len(rows) = Cardinality(parsed)
            /\ Len(rows) <= Len(lines)
            /\ \A k \in 1..Len(rows) :
                   \E entry \in EntriesOf(lines[Nth(parsed, k)]) :
                       IsRowOf(rows[k], entry.value, args[1].websiteId[1])

\* a line that does not parse before one that does: one entry, the second
\* line's
C17_Witness ==
    /\ Returned("POST")
    /\ args[1].file = Some(FileText(<<BadStatusLine, DownloadLine>>))
    /\ args[1].websiteId = Some("site-1")
    /\ Len(store) = 1
    /\ Len(store[1].request.insert) = 1
    /\ store[1].request.insert[1].bot_name = "GPTBot"
    /\ store[1].request.insert[1].bytes_transferred
           = JsNumber(BytesPerGB \div 2, 1)

\* a JSON line before a common-log line: two entries in that order
C17_WitnessOrder ==
    /\ Returned("POST")
    /\ args[1].file = Some(FileText(<<JsonDownloadLine, DownloadLine>>))
    /\ args[1].websiteId = Some("site-1")
    /\ Len(store[1].request.insert) = 2
    /\ store[1].request.insert[1].bot_name = "Unknown Bot"
    /\ store[1].request.insert[2].bot_name = "GPTBot"


\* the request is over and it called the store
Answered == pc = "return" /\ op \in {"POST", "GET"}

\* C20: a failure of the persistence layer (the insert of an ingestion, the
\* query of an analysis) is answered with a failure response that differs
\* from success and carries the underlying cause, and the operation is not
\* retried: the store is called at most once in a request.
C20_StoreFailureSurfaced ==
    Answered =>
        /\ Len(store) <= 1
        /\ \A i \in 1..Len(store) :
               store[i].error # Null =>
                   /\ ret.status = 500
                   /\ DOMAIN ret.body = {"error"}
                   /\ ret.body.error = store[i].error

\* what holds of C20: at most one call to the store, status 500 and no
\* result on a failure; the analysis answers with the message of the
\* error, the ingestion with a fixed text, the error going to the console
C20_StoreFailureAnswered ==
    Answered =>
        /\ Len(store) <= 1
        /\ \A i \in 1..Len(store) :
               store[i].error # Null =>
                   /\ ret.status = 500
                   /\ DOMAIN ret.body = {"error"}
                   /\ op = "GET" => ret.body.error = store[i].error
                   /\ op = "POST" =>
                          /\ ret.body.error = "Failed to process logs"
                          /\ console = << <<"Error processing logs:",
                                            store[i].error>> >>


\* \w of a regular expression
IsWordChar(c) ==
    \/ IsDigit(c)
    \/ c = "_"
    \/ \E k \in 1..Len(LowerCase) : c = LowerCase[k] \/ c = UpperCase[k]

\* the word stands at position i of the string with a word boundary on
\* either side, letter case aside
WordAt(chars, i, word) ==
    /\ i + Len(word) - 1 <= Len(chars)
    /\ SubSeq(ToLower(chars), i, i + Len(word) - 1) = word
    /\ i = 1 \/ ~IsWordChar(chars[i - 1])
    /\ i + Len(word) - 1 = Len(chars) \/ ~IsWordChar(chars[i + Len(word)])

\* one of the words stands in the string as a word of its own
HasWord(chars, words) ==
    \E w \in words : \E i \in 1..Len(chars) : WordAt(chars, i, w)

\* a user agent only the first generic pattern can match, and in which its
\* terms occur, but never as words of their own
TermOnlyInsideWord(ua) ==
    /\ ~Falsy(ua)
    /\ Matching(ua.chars) = {}
    /\ ~ContainsAny(ua.chars, HttpClientTerms \cup HeadlessTerms)
    /\ ContainsAny(ua.chars, BotTerms)
    /\ ~HasWord(ua.chars, BotTerms)

\* C21: the generic heuristic for bot/crawler/spider/scraper matches a term
\* only at word boundaries: a user agent that matches no registered
\* signature and no other generic pattern, and in which such a term occurs
\* only as part of a longer word, is classified isBot = false.
C21_WordBoundary ==
    (Returned("detect") /\ TermOnlyInsideWord(args[1])) => ~ret.isBot

\* what detect does with such a user agent: the pattern has no \b, the term
\* inside the longer word matches, and the answer is Unknown Bot at 0.8
C21_TermInsideWordMatches ==
    (Returned("detect") /\ TermOnlyInsideWord(args[1])) =>
        /\ ret.isBot
        /\ ret.botName = "Unknown Bot"
        /\ ret.confidence = 80


\* a contiguous tier table: bounds positive and strictly increasing, the
\* last tier, and only the last, unbounded
WellFormedTable(tiers) ==
    /\ Len(tiers) >= 1
    /\ \A t \in 1..Len(tiers) : tiers[t].infinite <=> t = Len(tiers)
    /\ \A t \in 1..(Len(tiers) - 1) :
           tiers[t].upToGB > (IF t = 1 THEN 0 ELSE tiers[t - 1].upToGB)

\* tierBound - previousBound of a bounded tier
WidthOf(tiers, t) ==
    tiers[t].upToGB - (IF t = 1 THEN 0 ELSE tiers[t - 1].upToGB)

RECURSIVE SumOfBilled(_, _, _)
\* billed[t] * weight[t] summed from tier t on
SumOfBilled(billed, weight, t) ==
    IF t > Len(billed) THEN 0
    ELSE billed[t] * weight[t] + SumOfBilled(billed, weight, t + 1)

\* the properties of the gigabytes billed per tier for gb over a table
TiersConsumed(gb, tiers, billed, cost) ==
    /\ Len(billed) = Len(tiers)
    /\ SumOfBilled(billed, [t \in 1..Len(tiers) |-> 1], 1) = gb
    /\ \A t \in 1..Len(tiers) :
           /\ billed[t] >= 0
           /\ ~tiers[t].infinite => billed[t] <= WidthOf(tiers, t)
           \* ascending order: a tier is billed once those before are full
           /\ billed[t] > 0 =>
                  \A u \in 1..(t - 1) : billed[u] = WidthOf(tiers, u)
    /\ cost = SumOfBilled(billed,
                          [t \in 1..Len(tiers) |-> tiers[t].costPerGB], 1)
    /\ cost >= 0

\* C22: tieredCost consumes the tiers in ascending order, billing
\* min(remaining, tierBound - previousBound) gigabytes at each tier's rate
\* and stopping once remaining reaches zero: for every contiguous tier table
\* with strictly increasing bounds and an unbounded last tier, and every
\* non-negative gb, the gigabytes billed over all tiers sum to exactly gb,
\* no tier is billed more than its width, and the cost is never negative.
C22_TiersConsumed ==
    (Returned("tieredCost") /\ WellFormedTable(args[2]) /\ args[1] >= 0) =>
        TiersConsumed(args[1], args[2], billedLoop(args[2], 1, args[1], 0),
                      ret)

\* traffic that fills the first two tiers of a table and reaches the third
C22_Witness ==
    /\ Returned("tieredCost")
    /\ WellFormedTable(args[2])
    /\ Len(args[2]) >= 3
    /\ args[1] > args[2][2].upToGB
    /\ billedLoop(args[2], 1, args[1], 0)[3] > 0
    /\ ret > 0

\* traffic of zero: nothing is billed at any tier
C22_WitnessZero ==
    /\ Returned("tieredCost")
    /\ WellFormedTable(args[2])
    /\ args[1] = 0
    /\ ret = 0


RECURSIVE SumOfTotals(_, _)
\* byCategory[c].total summed over the categories c of the set
SumOfTotals(byCategory, categories) ==
    IF categories = {} THEN 0
    ELSE LET c == CHOOSE k \in categories : TRUE
         IN  byCategory[c].total + SumOfTotals(byCategory, categories \ {c})

\* no two records of the list have the same category
DistinctCategories(botTraffic) ==
    \A a, b \in 1..Len(botTraffic) :
        botTraffic[a].category = botTraffic[b].category => a = b

\* C23: in the result of savingsByCategory, total equals the sum of
\* byCategory[c].total over all categories c present in byCategory, for
\* every input list of bot-traffic records, including lists in which two or
\* more records share a category.
C23_TotalIsSumOfCategories ==
    Returned("savingsByCategory") =>
        ret.total = SumOfTotals(ret.byCategory, DOMAIN ret.byCategory)

\* what the loop guarantees: byCategory holds the cost of the last record
\* of each category, so the sum is the total when no category repeats, and
\* never more than the total
C23_TotalIsSumWhenDistinct ==
    Returned("savingsByCategory") =>
        /\ DistinctCategories(args[1]) =>
               ret.total = SumOfTotals(ret.byCategory, DOMAIN ret.byCategory)
        /\ ret.total >= SumOfTotals(ret.byCategory, DOMAIN ret.byCategory)
        /\ DOMAIN ret.byCategory =
               {args[1][b].category : b \in 1..Len(args[1])}


\* the user-agent names of the rule blocks that carry the rule
NamesWith(document, rule) ==
    {block[1][2] : block \in
        {b \in {Blocks(document, 1, <<>>)[k] :
                    k \in 1..Len(Blocks(document, 1, <<>>))} :
            /\ b[1][1] = "User-agent: "
            /\ HasLine(b, <<rule>>)}}

\* C24: in a rendered robots policy no user-agent name is given
\* contradictory rules: for every input, no name appears both in a block
\* carrying 'Allow: /' and in a block carrying 'Disallow: /', including
\* when blockedBots contains Googlebot or bingbot or a name that is also a
\* key of the rate-limited mapping.
C24_NoContradictoryRules ==
    Returned("robotsTxt") =>
        NamesWith(ret, "Allow: /") \cap NamesWith(ret, "Disallow: /") = {}

\* what the render does: the names are written as they come, so the names
\* with both rules are the blocked names that are one of the two search
\* engines or a key of the rate-limited mapping
C24_ContradictionsFromInput ==
    Returned("robotsTxt") =>
        NamesWith(ret, "Allow: /") \cap NamesWith(ret, "Disallow: /") =
            {args[1][i] : i \in 1..Len(args[1])}
            \cap ({"Googlebot", "bingbot"}
                  \cup {args[2][j][1] : j \in 1..Len(args[2])})


\* the byte counts not above bytes that are compared with it: the sampled
\* ones, and every count of the gigabyte just below
NotAbove(bytes) ==
    {b \in ByteSamples \cup LargeByteSamples : b <= bytes}
    \cup {b \in (bytes - UnitsPerGB)..bytes : b >= 0}

\* C25: for every built-in provider and all non-negative byte counts
\* b1 <= b2, bandwidthCost(b1, p).total >= 0 and bandwidthCost(b1, p).total
\* <= bandwidthCost(b2, p).total: the cost of a provider is never negative
\* and never decreases as traffic grows, across the free allowance and every
\* tier boundary.
C25_CostMonotone ==
    (Returned("bandwidthCost") /\ args[2] \in DOMAIN providers) =>
        /\ ret.total >= 0
        /\ \A b1 \in NotAbove(args[1]) :
               calculateBandwidthCost(b1, args[2]).total <= ret.total

\* aws past its free allowance and its first two tiers: the cost is
\* positive and above that of the traffic that ends at the second bound
C25_Witness ==
    /\ Returned("bandwidthCost")
    /\ args[2] = "aws"
    /\ args[1] > FreeGB("aws") + providers.aws.tieredPricing[1][2].upToGB
    /\ GB(41) \in NotAbove(args[1])
    /\ 0 < calculateBandwidthCost(GB(41), "aws").total
    /\ calculateBandwidthCost(GB(41), "aws").total < ret.total

\* a flat provider inside and past its free allowance
C25_WitnessFlat ==
    /\ Returned("bandwidthCost")
    /\ args[2] = "vercel"
    /\ args[1] > FreeGB("vercel")
    /\ calculateBandwidthCost(GB(100), "vercel").total = 0
    /\ ret.total > 0


\* the request lacks the file or the site identifier
MissingInput(request) ==
    request.file = None \/ request.websiteId \in {None, Some("")}

\* C26: the ingestion request writes to the store at most once and reports
\* success only after that write succeeded: a request missing the file or
\* the site identifier is answered with a 400 error without any insert
\* being attempted, a failed insert is answered with a 500 error and no
\* statistics, and every success response carries statistics with
\* botRequests + humanRequests = totalEntries computed over exactly the
\* entries that were inserted.
C26_WriteOnceThenSuccess ==
    Returned("POST") =>
        /\ Len(store) <= 1
        /\ MissingInput(args[1]) =>
               /\ ret.status = 400
               /\ DOMAIN ret.body = {"error"}
               /\ store = <<>>
        /\ (store # <<>> /\ store[1].error # Null) =>
               /\ ret.status = 500
               /\ "stats" \notin DOMAIN ret.body
               /\ "success" \notin DOMAIN ret.body
        /\ ret.status = 200 =>
               /\ Len(store) = 1
               /\ store[1].error = Null
               /\ "insert" \in DOMAIN store[1].request
               /\ ret.body.success
               /\ ret.body.stats.totalEntries = Len(store[1].request.insert)
               /\ ret.body.stats.botRequests =
                      Len(SelectSeq(store[1].request.insert, IsBotEntry))
               /\ ret.body.stats.botRequests + ret.body.stats.humanRequests
                      = ret.body.stats.totalEntries

\* a success over a bot's line and a browser's line
C26_Witness ==
    /\ Returned("POST")
    /\ ret.status = 200
    /\ Len(store) = 1
    /\ ret.body.stats.totalEntries = 2
    /\ ret.body.stats.botRequests = 1
    /\ ret.body.stats.humanRequests = 1

\* an insert that failed
C26_WitnessFailure ==
    /\ Returned("POST")
    /\ Len(store) = 1
    /\ store[1].error # Null
    /\ Len(store[1].request.insert) > 0
    /\ ret.status = 500

\* a request without site identifier
C26_WitnessMissing ==
    /\ Returned("POST")
    /\ args[1].file # None
    /\ args[1].websiteId = None
    /\ ret.status = 400


(***************************************************************************)
(* Properties of the dashboard                                             *)
(***************************************************************************)
\* refreshes were issued and the responses of all of them have arrived
AllArrived ==
    /\ fetches # <<>>
    /\ \A i \in 1..Len(fetches) : fetches[i].state = "arrived"

\* the page shows what the response of refresh i carried
Shows(i) ==
    /\ metrics = Some(fetches[i].data[1].metrics)
    /\ realtimeLogs = fetches[i].data[1].logs

\* C27: when several metric refreshes are in flight at once (the initial
\* fetch, one per live insert notification, one per finished upload), once
\* all their responses have arrived the displayed metrics and activity feed
\* are those of the most recently issued refresh, whatever the order in
\* which the responses arrived; an older response never overwrites a newer
\* one.
C27_LatestRefreshShown == AllArrived => Shows(Len(fetches))

\* what the page does show: the response that arrived last, whichever
\* refresh it answers
C27_LastArrivalShown ==
    AllArrived =>
        \E i \in 1..Len(fetches) :
            /\ fetches[i].order = Len(fetches)
            /\ Shows(i)

\* two refreshes answered from different tables, the older arriving last
C27_StaleShown ==
    /\ AllArrived
    /\ Len(fetches) >= 2
    /\ fetches[1].order = Len(fetches)
    /\ fetches[1].data # fetches[Len(fetches)].data
    /\ Shows(1)

====
